---- MODULE Spec2Model ----
(***************************************************************************)
(* Order tracker of the dashboard (orders module): the list of tracked     *)
(* orders, the auto-refresh timer, and the asynchronous execute / cancel / *)
(* load / status-check requests with their continuations.                  *)
(* JavaScript is single threaded: every handler runs to its next await,    *)
(* so each action below is one handler segment between two awaits.         *)
(***************************************************************************)
EXTENDS Integers, Sequences, FiniteSets, TLC

\* ------------------------------------------------------------------ bounds
MaxInFlight == 2
MaxUpdated == 1
MaxCreated == 1
MaxShares == 250
MaxPutQuantity == 2
MaxStockPrice == 2
MaxStrike == 3
MaxCashHundreds == 12
MaxTickers == 3
MaxPriceTens == 12
MaxOptions == 4
MaxRefreshes == 1
MaxSaves == 2
MaxTableRefreshes == 1

\* ------------------------------------------------------------------ values
OrderIds == {101, 102}

\* the option types of a ticker, each with one Sell button in the table
OptionTypes == {"CALL", "PUT"}

Statuses == {"pending", "processing", "executed", "canceling", "canceled", "rejected"}
TerminalStatuses == {"executed", "canceled", "rejected"}
PollingStatuses == {"processing", "canceling"}

\* undefined / null in a local field or in a response field
NoVal == "none"
\* the key is not present in a response object
Missing == "missing"

VARIABLES
    pendingOrdersData,  \* tracked orders: order id -> order record
    autoRefreshTimer,   \* TRUE iff the variable holds an interval handle
    intervals,          \* number of live setInterval timers of the page
    inflight,           \* outstanding requests: request key -> count
    pollSuspended,      \* poll handlers waiting in `await loadFilledOrders()`
    refreshTimeouts,    \* pending setTimeout callbacks that refresh the order list
    page,               \* "init" | "ready" | "unloaded"
    alert,              \* the alert the last handler segment showed, or NoAlertShown
    console,            \* the console.error of the last handler segment, or NothingLogged
    calc,               \* the last calculation of the options table: inputs and result
    tickersData,        \* the options table's working state: ticker -> ticker record
    customTickers,      \* the custom ticker list kept in localStorage
    refreshes,          \* fetchOptionData calls whose response is awaited
    sellDisabled,       \* option type -> `disabled` of the Sell button now in the table
    saves,              \* Sell click handlers awaiting saveOptionOrder or the orders refresh
    tableRefreshes      \* Refresh click handlers awaiting refreshOptionsForTicker(ticker, true)

vars == <<pendingOrdersData, autoRefreshTimer, intervals, inflight, pollSuspended, refreshTimeouts,
          page, alert, console, calc, tickersData, customTickers, refreshes,
          sellDisabled, saves, tableRefreshes>>

\* ------------------------------------------------------------ request keys
ReqKinds == {"execute", "cancel"}
Requests == [kind : ReqKinds, id : OrderIds] \cup {[kind |-> "load", id |-> 0], [kind |-> "poll", id |-> 0]}
ExecuteReq(o) == [kind |-> "execute", id |-> o]
CancelReq(o) == [kind |-> "cancel", id |-> o]
LoadReq == [kind |-> "load", id |-> 0]
PollReq == [kind |-> "poll", id |-> 0]

RECURSIVE SumOver(_, _)
SumOver(f, S) == IF S = {} THEN 0 ELSE LET x == CHOOSE y \in S : TRUE IN f[x] + SumOver(f, S \ {x})
Outstanding == SumOver(inflight, Requests) + pollSuspended + refreshTimeouts
Send(r) == [inflight EXCEPT ![r] = @ + 1]
Receive(r) == [inflight EXCEPT ![r] = @ - 1]

\* ----------------------------------------------------------- backend data
\* The broker status the backend reports together with an order status
BackendIbStatus(st) ==
    CASE st = "processing" -> "Submitted"
      [] st = "executed" -> "Filled"
      [] st = "canceling" -> "PendingCancel"
      [] st = "canceled" -> "Cancelled"
      [] OTHER -> NoVal
\* An order as the backend lists it (GET pending-orders)
BackendOrder(st) ==
    [status |-> st,
     ib_order_id |-> IF st = "pending" THEN NoVal ELSE "IB1",
     ib_status |-> BackendIbStatus(st)]
\* {orders: [...]} of one load: any sub-list of the orders, each in any status
LoadResponses ==
    UNION {[S -> {BackendOrder(st) : st \in Statuses}] : S \in SUBSET OrderIds}

\* POST execute -> {success, ib_order_id?, ib_status?, execution_details?}
\* execution_details: `present` is FALSE when the response has no such object
NoDetails == [present |-> FALSE, ib_order_id |-> NoVal, ib_status |-> NoVal]
ExecutionDetails == [present : {TRUE}, ib_order_id : {"IB1"}, ib_status : {"Submitted"}]
ExecuteResults ==
    [ib_order_id : {NoVal, "IB1"},
     ib_status : {NoVal, "Filled"},
     execution_details : {NoDetails} \cup ExecutionDetails]

\* POST cancel -> {success, ib_status?}
CancelResults == [ib_status : {NoVal, "PendingCancel", "Cancelled", "Filled"}]

\* one entry of updated_orders; a field is a value or Missing (key not present):
\* the status with its broker status and no broker order id, or the broker
\* order id alone
UpdatedOrders ==
    {[status |-> st, ib_order_id |-> Missing, ib_status |-> BackendIbStatus(st)] : st \in Statuses}
    \cup {[status |-> Missing, ib_order_id |-> "IB1", ib_status |-> Missing]}
\* POST check-orders -> {success, updated_orders}
NoUpdates == [o \in {} |-> [status |-> Missing, ib_order_id |-> Missing, ib_status |-> Missing]]
PollResults ==
    {[success |-> FALSE, updated_orders |-> NoUpdates]} \cup
    [success : {TRUE},
     updated_orders : UNION {[S -> UpdatedOrders] : S \in {T \in SUBSET OrderIds : Cardinality(T) <= MaxUpdated}}]

\* ------------------------------------------------------------- the module
Tracked == DOMAIN pendingOrdersData
\* pendingOrdersData.some(order => ['processing', 'canceling'].includes(order.status))
HasProcessingOrders(orders) == \E o \in DOMAIN orders : orders[o].status \in PollingStatuses
\* the test taking every order that is not yet terminal for one in progress
StillHasProcessingOrders_AnyOpen(orders) ==
    \E o \in DOMAIN orders : orders[o].status \notin TerminalStatuses
\* the same test, made again once the updates are merged
StillHasProcessingOrders(orders) == \E o \in DOMAIN orders : orders[o].status \in PollingStatuses

\* startAutoRefresh without the test for a running timer
StartAutoRefresh_AlwaysNew ==
    /\ autoRefreshTimer' = TRUE
    /\ intervals' = intervals + 1

\* startAutoRefresh
StartAutoRefresh ==
    /\ autoRefreshTimer' = TRUE
    /\ intervals' = IF autoRefreshTimer THEN intervals ELSE intervals + 1

\* stopAutoRefresh that drops the handle without clearInterval
StopAutoRefresh_KeepsInterval ==
    /\ autoRefreshTimer' = FALSE
    /\ intervals' = intervals

\* stopAutoRefresh
StopAutoRefresh ==
    /\ autoRefreshTimer' = FALSE
    /\ intervals' = IF autoRefreshTimer THEN intervals - 1 ELSE intervals

KeepTimer == UNCHANGED <<autoRefreshTimer, intervals>>

\* the alerts of the module, by their message, and the type each is shown with
NoAlertShown == "none"
AlertType(message) ==
    CASE message \in {"Order sent to TWS", "Order cancellation requested",
                       "Successfully created option orders"} -> "success"
      [] message = "No option orders were created" -> "warning"
      [] message \in {"Error executing order", "Error cancelling order",
                       "Error fetching orders"} -> "danger"
      [] OTHER -> "none"
\* showAlert(message, type)
ShowAlert(message) == alert' = message
NoAlert == alert' = NoAlertShown

\* console.error(message, error), and a segment that logs no error
NothingLogged == "none"
LogError(message) == console' = message
NoError == console' = NothingLogged

\* the options table has calculated nothing yet
NoCalc == [op |-> "none"]

Init ==
    /\ pendingOrdersData = [o \in {} |-> BackendOrder("pending")]
    /\ autoRefreshTimer = FALSE
    /\ intervals = 0
    /\ inflight = [r \in Requests |-> 0]
    /\ pollSuspended = 0
    /\ refreshTimeouts = 0
    /\ page = "init"
    /\ alert = NoAlertShown
    /\ console = NothingLogged
    /\ calc = NoCalc
    /\ tickersData = << >>
    /\ customTickers = << >>
    /\ refreshes = << >>
    /\ sellDisabled = [optionType \in OptionTypes |-> FALSE]
    /\ saves = << >>
    /\ tableRefreshes = 0

\* DOMContentLoaded: loadPendingOrders() is started, not awaited, and the list
\* is inspected at once
DOMContentLoaded ==
    /\ page = "init"
    /\ page' = "ready"
    /\ inflight' = Send(LoadReq)
    /\ IF HasProcessingOrders(pendingOrdersData) THEN StartAutoRefresh ELSE KeepTimer
    /\ NoAlert
    /\ UNCHANGED <<pendingOrdersData, pollSuspended>>
    /\ NoError
    /\ UNCHANGED <<refreshTimeouts, calc, tickersData, customTickers, refreshes,
                 sellDisabled, saves, tableRefreshes>>

\* the Execute button of a row is enabled only while the row shows pending
ExecuteEnabled(o) == o \in Tracked /\ pendingOrdersData[o].status = "pending"

\* click on Execute: executeOrderById up to its await
ClickExecute(o) ==
    /\ page = "ready"
    /\ ExecuteEnabled(o)
    /\ Outstanding < MaxInFlight
    /\ inflight' = Send(ExecuteReq(o))
    /\ NoAlert
    /\ UNCHANGED <<pendingOrdersData, autoRefreshTimer, intervals, pollSuspended, page>>
    /\ NoError
    /\ UNCHANGED <<refreshTimeouts, calc, tickersData, customTickers, refreshes,
                 sellDisabled, saves, tableRefreshes>>

\* the update reading only the top level of the response
ExecuteUpdate_TopLevelOnly(order, result) ==
    [order EXCEPT !.status = "processing",
                  !.ib_order_id = IF result.ib_order_id # NoVal THEN result.ib_order_id ELSE "Unknown",
                  !.ib_status = "Submitted"]

\* the order after a successful execute
ExecuteUpdate(order, result) ==
    IF result.execution_details.present
    THEN [order EXCEPT !.status = "processing",
                       !.ib_order_id = result.execution_details.ib_order_id,
                       !.ib_status = result.execution_details.ib_status]
    ELSE [order EXCEPT !.status = "processing",
                       !.ib_order_id = IF result.ib_order_id # NoVal THEN result.ib_order_id ELSE "Unknown",
                       !.ib_status = "Submitted"]

\* executeOrder resolved: executeOrderById from its await on
ExecuteSucceeds(o, result) ==
    /\ page = "ready"
    /\ inflight[ExecuteReq(o)] > 0
    /\ inflight' = Receive(ExecuteReq(o))
    /\ pendingOrdersData' =
         IF o \in Tracked
         THEN [pendingOrdersData EXCEPT ![o] = ExecuteUpdate(@, result)]
         ELSE pendingOrdersData
    /\ StartAutoRefresh
    /\ ShowAlert("Order sent to TWS")
    /\ UNCHANGED <<pollSuspended, page>>
    /\ NoError
    /\ UNCHANGED <<refreshTimeouts, calc, tickersData, customTickers, refreshes,
                 sellDisabled, saves, tableRefreshes>>

\* the catch block marking the order rejected
ExecuteFails_MarksRejected(o) ==
    /\ page = "ready"
    /\ inflight[ExecuteReq(o)] > 0
    /\ inflight' = Receive(ExecuteReq(o))
    /\ pendingOrdersData' =
         IF o \in Tracked
         THEN [pendingOrdersData EXCEPT ![o].status = "rejected"]
         ELSE pendingOrdersData
    /\ ShowAlert("Error executing order")
    /\ UNCHANGED <<autoRefreshTimer, intervals, pollSuspended, page>>
    /\ LogError("Error executing order")
    /\ UNCHANGED <<refreshTimeouts, calc, tickersData, customTickers, refreshes,
                 sellDisabled, saves, tableRefreshes>>

\* executeOrder threw: the catch block
ExecuteFails(o) ==
    /\ page = "ready"
    /\ inflight[ExecuteReq(o)] > 0
    /\ inflight' = Receive(ExecuteReq(o))
    /\ ShowAlert("Error executing order")
    /\ UNCHANGED <<pendingOrdersData, autoRefreshTimer, intervals, pollSuspended, page>>
    /\ LogError("Error executing order")
    /\ UNCHANGED <<refreshTimeouts, calc, tickersData, customTickers, refreshes,
                 sellDisabled, saves, tableRefreshes>>

\* the Cancel button of a row is disabled once the row shows a terminal status
CancelEnabled(o) == o \in Tracked /\ pendingOrdersData[o].status \notin TerminalStatuses

\* click on Cancel: cancelOrderById up to its await
ClickCancel(o) ==
    /\ page = "ready"
    /\ CancelEnabled(o)
    /\ Outstanding < MaxInFlight
    /\ inflight' = Send(CancelReq(o))
    /\ NoAlert
    /\ UNCHANGED <<pendingOrdersData, autoRefreshTimer, intervals, pollSuspended, page>>
    /\ NoError
    /\ UNCHANGED <<refreshTimeouts, calc, tickersData, customTickers, refreshes,
                 sellDisabled, saves, tableRefreshes>>

\* the status that never takes the cancellation for done
CancelStatus_AlwaysCanceling(result) == "canceling"

\* the local status after a successful cancel
CancelStatus(result) == IF result.ib_status = "PendingCancel" THEN "canceling" ELSE "canceled"

\* the order after a successful cancel
CancelUpdate(order, result) ==
    [order EXCEPT !.status = CancelStatus(result),
                  !.ib_status = IF result.ib_status # NoVal THEN result.ib_status ELSE @]

\* cancelOrder resolved: cancelOrderById from its await on
CancelSucceeds(o, result) ==
    /\ page = "ready"
    /\ inflight[CancelReq(o)] > 0
    /\ inflight' = Receive(CancelReq(o))
    /\ pendingOrdersData' =
         IF o \in Tracked
         THEN [pendingOrdersData EXCEPT ![o] = CancelUpdate(@, result)]
         ELSE pendingOrdersData
    /\ StartAutoRefresh
    /\ ShowAlert("Order cancellation requested")
    /\ UNCHANGED <<pollSuspended, page>>
    /\ NoError
    /\ UNCHANGED <<refreshTimeouts, calc, tickersData, customTickers, refreshes,
                 sellDisabled, saves, tableRefreshes>>

\* the catch block sending the request once more
CancelFails_Retries(o) ==
    /\ page = "ready"
    /\ inflight[CancelReq(o)] > 0
    /\ inflight' = inflight
    /\ ShowAlert("Error cancelling order")
    /\ UNCHANGED <<pendingOrdersData, autoRefreshTimer, intervals, pollSuspended, page>>
    /\ LogError("Error cancelling order")
    /\ UNCHANGED <<refreshTimeouts, calc, tickersData, customTickers, refreshes,
                 sellDisabled, saves, tableRefreshes>>

\* cancelOrder threw: the catch block
CancelFails(o) ==
    /\ page = "ready"
    /\ inflight[CancelReq(o)] > 0
    /\ inflight' = Receive(CancelReq(o))
    /\ ShowAlert("Error cancelling order")
    /\ UNCHANGED <<pendingOrdersData, autoRefreshTimer, intervals, pollSuspended, page>>
    /\ LogError("Error cancelling order")
    /\ UNCHANGED <<refreshTimeouts, calc, tickersData, customTickers, refreshes,
                 sellDisabled, saves, tableRefreshes>>

\* loadPendingOrders up to its first await (refresh click, ordersUpdated event)
LoadPendingOrders ==
    /\ page = "ready"
    /\ Outstanding < MaxInFlight
    /\ inflight' = Send(LoadReq)
    /\ NoAlert
    /\ UNCHANGED <<pendingOrdersData, autoRefreshTimer, intervals, pollSuspended, page>>
    /\ NoError
    /\ UNCHANGED <<refreshTimeouts, calc, tickersData, customTickers, refreshes,
                 sellDisabled, saves, tableRefreshes>>

\* fetchPendingOrders returned {orders: [...]}: the list is replaced
LoadSucceeds(orders) ==
    /\ page = "ready"
    /\ inflight[LoadReq] > 0
    /\ inflight' = Receive(LoadReq)
    /\ pendingOrdersData' = orders
    /\ NoAlert
    /\ UNCHANGED <<autoRefreshTimer, intervals, pollSuspended, page>>
    /\ NoError
    /\ UNCHANGED <<refreshTimeouts, calc, tickersData, customTickers, refreshes,
                 sellDisabled, saves, tableRefreshes>>

\* fetchPendingOrders caught its error, alerted and returned null
LoadFails ==
    /\ page = "ready"
    /\ inflight[LoadReq] > 0
    /\ inflight' = Receive(LoadReq)
    /\ ShowAlert("Error fetching orders")
    /\ UNCHANGED <<pendingOrdersData, autoRefreshTimer, intervals, pollSuspended, page>>
    /\ LogError("Error fetching orders")
    /\ UNCHANGED <<refreshTimeouts, calc, tickersData, customTickers, refreshes,
                 sellDisabled, saves, tableRefreshes>>

\* an interval fires: checkOrdersStatus up to its first await
Tick ==
    /\ page = "ready"
    /\ intervals > 0
    /\ IF HasProcessingOrders(pendingOrdersData)
       THEN /\ Outstanding < MaxInFlight
            /\ inflight' = Send(PollReq)
            /\ KeepTimer
            /\ NoAlert
       ELSE /\ StopAutoRefresh
            /\ UNCHANGED inflight
            /\ NoAlert
    /\ UNCHANGED <<pendingOrdersData, pollSuspended, page>>
    /\ NoError
    /\ UNCHANGED <<refreshTimeouts, calc, tickersData, customTickers, refreshes,
                 sellDisabled, saves, tableRefreshes>>

\* the update taken as the whole order: what it lacks is lost
MergeOrder_Replace(order, updatedOrder) ==
    [f \in DOMAIN order |-> IF updatedOrder[f] # Missing THEN updatedOrder[f] ELSE NoVal]

\* {...local, ...updatedOrder}
MergeOrder(order, updatedOrder) ==
    [f \in DOMAIN order |-> IF updatedOrder[f] # Missing THEN updatedOrder[f] ELSE order[f]]

\* the forEach over updated_orders
MergeUpdatedOrders(orders, updated) ==
    [o \in DOMAIN orders |->
        IF o \in DOMAIN updated THEN MergeOrder(orders[o], updated[o]) ELSE orders[o]]

OrderWasExecuted(orders, updated) ==
    \E o \in DOMAIN orders \cap DOMAIN updated :
        orders[o].status # "executed" /\ updated[o].status = "executed"

\* the body of `if (result && result.success && ... length > 0)`
ResultHasUpdates(result) == result.success /\ DOMAIN result.updated_orders # {}

\* checkOrderStatus resolved: checkOrdersStatus from its await on
PollSucceeds(result) ==
    /\ page = "ready"
    /\ inflight[PollReq] > 0
    /\ inflight' = Receive(PollReq)
    /\ IF ResultHasUpdates(result)
       THEN /\ pendingOrdersData' = MergeUpdatedOrders(pendingOrdersData, result.updated_orders)
            /\ IF OrderWasExecuted(pendingOrdersData, result.updated_orders)
               THEN /\ pollSuspended' = pollSuspended + 1
                    /\ KeepTimer
                    /\ NoAlert
               ELSE /\ UNCHANGED pollSuspended
                    /\ IF StillHasProcessingOrders(pendingOrdersData') THEN KeepTimer ELSE StopAutoRefresh
                    /\ NoAlert
       ELSE /\ UNCHANGED <<pendingOrdersData, pollSuspended>>
            /\ KeepTimer
            /\ NoAlert
    /\ UNCHANGED page
    /\ NoError
    /\ UNCHANGED <<refreshTimeouts, calc, tickersData, customTickers, refreshes,
                 sellDisabled, saves, tableRefreshes>>

\* `await loadFilledOrders()` returned (it catches its own errors)
PollResumes ==
    /\ page = "ready"
    /\ pollSuspended > 0
    /\ pollSuspended' = pollSuspended - 1
    /\ IF StillHasProcessingOrders(pendingOrdersData) THEN KeepTimer ELSE StopAutoRefresh
    /\ NoAlert
    /\ UNCHANGED <<pendingOrdersData, inflight, page>>
    /\ NoError
    /\ UNCHANGED <<refreshTimeouts, calc, tickersData, customTickers, refreshes,
                 sellDisabled, saves, tableRefreshes>>

\* the catch block surfacing the failure like the other handlers do
PollFails_ShowsAlert ==
    /\ page = "ready"
    /\ inflight[PollReq] > 0
    /\ inflight' = Receive(PollReq)
    /\ ShowAlert("Error fetching orders")
    /\ UNCHANGED <<pendingOrdersData, autoRefreshTimer, intervals, pollSuspended, page>>
    /\ LogError("Error checking order status")
    /\ UNCHANGED <<refreshTimeouts, calc, tickersData, customTickers, refreshes,
                 sellDisabled, saves, tableRefreshes>>

\* checkOrderStatus threw: caught and logged
PollFails ==
    /\ page = "ready"
    /\ inflight[PollReq] > 0
    /\ inflight' = Receive(PollReq)
    /\ NoAlert
    /\ UNCHANGED <<pendingOrdersData, autoRefreshTimer, intervals, pollSuspended, page>>
    /\ LogError("Error checking order status")
    /\ UNCHANGED <<refreshTimeouts, calc, tickersData, customTickers, refreshes,
                 sellDisabled, saves, tableRefreshes>>

\* sellAllOptions from the end of its loop on: with an order created, the
\* summary alert, the refresh of the list (refreshPendingOrders clicks the
\* refresh button: loadPendingOrders up to its await) and two timeouts that
\* will refresh again; without, the warning. The burst is started with
\* nothing outstanding, which caps the pending continuations.
SellAllDone(successOrders) ==
    /\ page = "ready"
    /\ Outstanding = 0
    /\ IF successOrders > 0
       THEN /\ inflight' = Send(LoadReq)
            /\ refreshTimeouts' = refreshTimeouts + 2
            /\ ShowAlert("Successfully created option orders")
       ELSE /\ UNCHANGED <<inflight, refreshTimeouts>>
            /\ ShowAlert("No option orders were created")
    /\ NoError
    /\ UNCHANGED <<pendingOrdersData, autoRefreshTimer, intervals, pollSuspended, page, calc, tickersData, customTickers, refreshes,
                 sellDisabled, saves, tableRefreshes>>

\* a timeout of sellAllOptions fires: refreshPendingOrders again
DelayedRefresh ==
    /\ page = "ready"
    /\ refreshTimeouts > 0
    /\ refreshTimeouts' = refreshTimeouts - 1
    /\ inflight' = Send(LoadReq)
    /\ NoAlert
    /\ NoError
    /\ UNCHANGED <<pendingOrdersData, autoRefreshTimer, intervals, pollSuspended, page, calc, tickersData, customTickers, refreshes,
                 sellDisabled, saves, tableRefreshes>>

\* beforeunload
BeforeUnload ==
    /\ page = "ready"
    /\ page' = "unloaded"
    /\ StopAutoRefresh
    /\ inflight' = [r \in Requests |-> 0]
    /\ pollSuspended' = 0
    /\ NoAlert
    /\ UNCHANGED pendingOrdersData
    /\ NoError
    /\ refreshTimeouts' = 0
    /\ UNCHANGED <<calc, tickersData, customTickers, refreshes,
                 sellDisabled, saves, tableRefreshes>>

Next ==
    \/ DOMContentLoaded
    \/ \E o \in OrderIds : ClickExecute(o)
    \/ \E o \in OrderIds, result \in ExecuteResults : ExecuteSucceeds(o, result)
    \/ \E o \in OrderIds : ExecuteFails(o)
    \/ \E o \in OrderIds : ClickCancel(o)
    \/ \E o \in OrderIds, result \in CancelResults : CancelSucceeds(o, result)
    \/ \E o \in OrderIds : CancelFails(o)
    \/ LoadPendingOrders
    \/ \E orders \in LoadResponses : LoadSucceeds(orders)
    \/ LoadFails
    \/ Tick
    \/ \E result \in PollResults : PollSucceeds(result)
    \/ PollResumes
    \/ PollFails
    \/ \E successOrders \in 0..MaxCreated : SellAllDone(successOrders)
    \/ DelayedRefresh
    \/ BeforeUnload

Spec == Init /\ [][Next]_vars

\* ---------------------------------------------------------- options table
\* The calculations of the options table and of the rollover page. They read
\* their inputs and nothing of the order tracker, so they run under a
\* specification of their own: each action is one calculation, on inputs
\* drawn from bounded sets, and leaves its inputs and its result in calc.
\* A calculation keeps nothing from one call to the next, so a behaviour is
\* one call from the page as loaded.
TrackerIdle ==
    UNCHANGED <<pendingOrdersData, autoRefreshTimer, intervals, inflight, pollSuspended,
                refreshTimeouts, page, alert, console>>

\* the options table's working state is left as it is
TickersIdle == UNCHANGED <<tickersData, customTickers, refreshes>>

\* the Sell buttons and their click handlers are left as they are
SellIdle == UNCHANGED <<sellDisabled, saves, tableRefreshes>>

\* a || b on numbers
OrElse(a, b) == IF a = 0 THEN b ELSE a

\* Math.floor(sharesOwned / 100)
MaxCallContracts(sharesOwned) == sharesOwned \div 100

\* maxCallContracts || 1
CallQuantity(sharesOwned) == OrElse(MaxCallContracts(sharesOwned), 1)

\* orderData of one order, the fields the quantity rule is about
OrderData(optionType, quantity) == [option_type |-> optionType, quantity |-> quantity]

\* callsDisabled as loadTickers sets it
CallsDisabled(isCustom, isPortfolioTicker) == isCustom /\ ~isPortfolioTicker

\* orderOptionsForTicker (options table, row button and Order All): the
\* orders it saves for a ticker with option data
OrdersForTicker(isCustom, isPortfolioTicker, sharesOwned, hasCall, hasPut, putQuantity) ==
    IF isCustom /\ ~isPortfolioTicker
    THEN IF hasPut /\ putQuantity > 0 THEN <<OrderData("PUT", putQuantity)>> ELSE <<>>
    ELSE (IF hasCall /\ ~CallsDisabled(isCustom, isPortfolioTicker)
          THEN <<OrderData("CALL", CallQuantity(sharesOwned))>> ELSE <<>>)
         \o (IF hasPut /\ putQuantity > 0 THEN <<OrderData("PUT", putQuantity)>> ELSE <<>>)

OrderOptionsForTicker(isCustom, isPortfolioTicker, sharesOwned, hasCall, hasPut, putQuantity) ==
    /\ calc = NoCalc
    /\ hasCall \/ hasPut
    /\ calc' = [op |-> "orderOptionsForTicker",
                sharesOwned |-> sharesOwned,
                orders |-> OrdersForTicker(isCustom, isPortfolioTicker, sharesOwned,
                                           hasCall, hasPut, putQuantity)]
    /\ TrackerIdle
    /\ TickersIdle
    /\ SellIdle

\* the Sell button of a row of the call or put table: the calls table lists
\* only tickers with 100 shares or more
SellOption(optionType, sharesOwned, putQuantity) ==
    /\ calc = NoCalc
    /\ optionType = "CALL" => sharesOwned >= 100
    /\ calc' = [op |-> "sellOption",
                sharesOwned |-> sharesOwned,
                orders |-> <<OrderData(optionType,
                                       IF optionType = "CALL"
                                       THEN OrElse(sharesOwned \div 100, 1)
                                       ELSE OrElse(putQuantity, 1))>>]
    /\ TrackerIdle
    /\ TickersIdle
    /\ SellIdle

\* sellAllOptions, for one ticker with options of the type
SellAllOptions(optionType, sharesOwned, putQuantity) ==
    /\ calc = NoCalc
    /\ calc' = [op |-> "sellAllOptions",
                sharesOwned |-> sharesOwned,
                orders |-> IF optionType = "CALL" /\ sharesOwned < 100
                           THEN <<>>
                           ELSE <<OrderData(optionType,
                                            IF optionType = "CALL"
                                            THEN sharesOwned \div 100
                                            ELSE OrElse(putQuantity, 1))>>]
    /\ TrackerIdle
    /\ TickersIdle
    /\ SellIdle

\* an order's status as the rollover page may get it: the statuses of the
\* tracker, the spellings the page itself tests for, or none
RolloverStatuses == Statuses \cup {"filled", "cancelled", NoVal}

\* populatePendingOrdersTable (rollover page): the status text of a row
RolloverStatusText(status) ==
    LET statusText == IF status = NoVal THEN "pending" ELSE status
    IN  CASE statusText \in {"executed", "filled"} -> "Executed"
          [] statusText = "cancelled" -> "Cancelled"
          [] statusText = "rejected" -> "Rejected"
          [] statusText = "processing" -> "Processing"
          [] OTHER -> "Pending"

\* the buttons of the row
RolloverActionButtons(statusText) ==
    CASE statusText = "Pending" -> {"execute-order-btn", "cancel-order-btn"}
      [] statusText = "Processing" -> {"cancel-order-btn"}
      [] OTHER -> {}

\* one row of the pending orders table of the rollover page
PopulatePendingOrdersTable(status) ==
    /\ calc = NoCalc
    /\ calc' = [op |-> "populatePendingOrdersTable",
                status |-> status,
                statusText |-> RolloverStatusText(status),
                actionButtons |-> RolloverActionButtons(RolloverStatusText(status))]
    /\ TrackerIdle
    /\ TickersIdle
    /\ SellIdle

Min(a, b) == IF a < b THEN a ELSE b
Max(a, b) == IF a > b THEN a ELSE b

\* Math.floor(maxAllocationPerStock / (putStrike * 100)) with
\* maxAllocationPerStock = (2.0 * cashBalance) / totalStocks: on whole numbers
\* the floor of the nested quotient is the integer quotient
PotentialContracts(cashBalance, totalStocks, putStrike) ==
    (2 * cashBalance) \div (totalStocks * (putStrike * 100))

\* the recommendation without its floor of one contract
RecommendedPutQuantity_NoFloor(hasPortfolioSummary, stockPrice, putStrike, cashBalance, tickerCount) ==
    IF ~hasPortfolioSummary \/ stockPrice = 0 \/ putStrike = 0
    THEN 1
    ELSE Min(PotentialContracts(cashBalance, OrElse(tickerCount, 1), putStrike), 10)

\* calculateRecommendedPutQuantity(stockPrice, putStrike, ticker).quantity,
\* with portfolioSummary.cash_balance and the number of keys of tickersData
RecommendedPutQuantity(hasPortfolioSummary, stockPrice, putStrike, cashBalance, tickerCount) ==
    IF ~hasPortfolioSummary \/ stockPrice = 0 \/ putStrike = 0
    THEN 1
    ELSE LET totalStocks == OrElse(tickerCount, 1)
             potentialContracts == PotentialContracts(cashBalance, totalStocks, putStrike)
             maxContracts == Min(potentialContracts, 10)
         IN  Max(1, maxContracts)

CalculateRecommendedPutQuantity(hasPortfolioSummary, stockPrice, putStrike, cashBalance, tickerCount) ==
    /\ calc = NoCalc
    /\ calc' = [op |-> "calculateRecommendedPutQuantity",
                hasPortfolioSummary |-> hasPortfolioSummary,
                stockPrice |-> stockPrice,
                putStrike |-> putStrike,
                cashBalance |-> cashBalance,
                tickerCount |-> tickerCount,
                quantity |-> RecommendedPutQuantity(hasPortfolioSummary, stockPrice, putStrike,
                                                    cashBalance, tickerCount)]
    /\ TrackerIdle
    /\ TickersIdle
    /\ SellIdle

\* a ratio num / den of whole numbers, den > 0, and the operations on it
RECURSIVE GCD(_, _)
GCD(a, b) == IF b = 0 THEN a ELSE GCD(b, a % b)
Ratio(num, den) ==
    LET divisor == GCD(IF num < 0 THEN 0 - num ELSE num, den)
    IN  <<num \div divisor, den \div divisor>>
RatioEq(a, b) == a[1] * b[2] = b[1] * a[2]
RatioNeg(a) == <<0 - a[1], a[2]>>

\* calculateOTMPercentage(strikePrice, currentPrice)
CalculateOTMPercentage(strikePrice, currentPrice) ==
    IF strikePrice = 0 \/ currentPrice = 0
    THEN Ratio(0, 1)
    ELSE Ratio((strikePrice - currentPrice) * 100, currentPrice)

\* updateOptionsTable (single table): the OTM percentages of a row with a call
\* and a put option
UpdateOptionsTable(stockPrice, callStrike, putStrike) ==
    /\ calc = NoCalc
    /\ calc' = [op |-> "updateOptionsTable",
                stockPrice |-> stockPrice,
                callStrike |-> callStrike,
                putStrike |-> putStrike,
                callOTMPercent |-> CalculateOTMPercentage(callStrike, stockPrice),
                putOTMPercent |-> CalculateOTMPercentage(stockPrice, putStrike)]
    /\ TrackerIdle
    /\ TickersIdle
    /\ SellIdle

\* updateOptionsTable (tables of calls and of puts): the OTM percentages of a
\* call row and of a put row of one ticker
UpdateOptionsTables(stockPrice, callStrike, putStrike) ==
    /\ calc = NoCalc
    /\ calc' = [op |-> "updateOptionsTables",
                stockPrice |-> stockPrice,
                callStrike |-> callStrike,
                putStrike |-> putStrike,
                callOTMPercent |-> CalculateOTMPercentage(callStrike, stockPrice),
                putOTMPercent |-> RatioNeg(CalculateOTMPercentage(putStrike, stockPrice))]
    /\ TrackerIdle
    /\ TickersIdle
    /\ SellIdle

\* price || 0 of a response entry: a stock price that is absent or zero reads 0
\* (prices are modelled as whole numbers, so the value is kept as it is)
StockPriceOrZero(price) == OrElse(price, 0)

\* refreshOptionsForTicker, the version that builds mergedData: the stock price
\* of the call response, and that of the put response when the merged price is
\* still 0. hasCallData and hasPutData say whether the response has an entry
\* for the ticker.
MergedStockPrice(hasCallData, callPrice, hasPutData, putPrice) ==
    LET initial == 0
        afterCall == IF hasCallData THEN StockPriceOrZero(callPrice) ELSE initial
    IN  IF hasPutData /\ afterCall = 0
        THEN StockPriceOrZero(putPrice)
        ELSE afterCall

RefreshOptionsForTickerMergedData(hasCallData, callPrice, hasPutData, putPrice) ==
    /\ calc = NoCalc
    /\ calc' = [op |-> "refreshOptionsForTickerMergedData",
                hasCallData |-> hasCallData,
                callPrice |-> callPrice,
                hasPutData |-> hasPutData,
                putPrice |-> putPrice,
                stock_price |-> MergedStockPrice(hasCallData, callPrice, hasPutData, putPrice)]
    /\ TrackerIdle
    /\ TickersIdle
    /\ SellIdle

\* refreshOptionsForTicker, the version that updates tickersData in place:
\* the stock price is taken from the call response only; the put response
\* updates the puts and nothing else. storedPrice is the price tickersData
\* held before (0 for a ticker that is initialised here).
UpdatedStockPrice(storedPrice, hasCallData, callPrice, hasPutData, putPrice) ==
    IF hasCallData THEN StockPriceOrZero(callPrice) ELSE storedPrice

RefreshOptionsForTicker(storedPrice, hasCallData, callPrice, hasPutData, putPrice) ==
    /\ calc = NoCalc
    /\ calc' = [op |-> "refreshOptionsForTicker",
                storedPrice |-> storedPrice,
                hasCallData |-> hasCallData,
                callPrice |-> callPrice,
                hasPutData |-> hasPutData,
                putPrice |-> putPrice,
                stock_price |-> UpdatedStockPrice(storedPrice, hasCallData, callPrice,
                                                  hasPutData, putPrice)]
    /\ TrackerIdle
    /\ TickersIdle
    /\ SellIdle

\* refreshOptionsForTickerByType: one response, of either type; its stock
\* price replaces the stored one when it is not zero
RefreshOptionsForTickerByType(storedPrice, optionType, hasData, price) ==
    /\ calc = NoCalc
    /\ calc' = [op |-> "refreshOptionsForTickerByType",
                storedPrice |-> storedPrice,
                optionType |-> optionType,
                hasData |-> hasData,
                price |-> price,
                stock_price |-> IF hasData /\ price # 0 THEN price ELSE storedPrice]
    /\ TrackerIdle
    /\ TickersIdle
    /\ SellIdle

\* a calendar date of 2024, as the expiration strings "2024-06-21" give it
CalendarDate(month, day) == [year |-> 2024, month |-> month, day |-> day]

\* the days of 2024 before the first of a month
DaysBeforeMonth(month) ==
    CASE month = 6 -> 152
      [] month = 7 -> 182

\* the day of a calendar date, counted from 2024-01-01
DayNumber(date) == DaysBeforeMonth(date.month) + date.day - 1

\* new Date(expiration): the instant at which the calendar date begins,
\* in hours from the beginning of 2024
Date(expiration) == 24 * DayNumber(expiration)

\* oneWeekLater: setDate(getDate() + 7) moves the local calendar date on by
\* seven days, which is 168 hours, or an hour less or more when the local
\* clock changes in between (clockChange is -1, 0 or 1)
OneWeekLater(currentExpiry, clockChange) == currentExpiry + 7 * 24 + clockChange

AbsDiff(a, b) == IF a < b THEN b - a ELSE a - b

\* filter(option => optionExpiry > currentExpiry)
LaterOptions_NotEarlier(availableOptions, currentExpiry) ==
    SelectSeq(availableOptions, LAMBDA option : Date(option) >= currentExpiry)

LaterOptions(availableOptions, currentExpiry) ==
    SelectSeq(availableOptions, LAMBDA option : Date(option) > currentExpiry)

\* sort((a, b) => diffA - diffB): the options in the order of their distance
\* from oneWeekLater, options at the same distance in their former order
RECURSIVE InsertByDistance(_, _, _)
InsertByDistance(option, sorted, oneWeekLater) ==
    IF sorted = << >>
    THEN <<option>>
    ELSE IF AbsDiff(Date(Head(sorted)), oneWeekLater) <= AbsDiff(Date(option), oneWeekLater)
         THEN <<Head(sorted)>> \o InsertByDistance(option, Tail(sorted), oneWeekLater)
         ELSE <<option>> \o sorted

RECURSIVE SortByDistance(_, _)
SortByDistance(options, oneWeekLater) ==
    IF options = << >>
    THEN << >>
    ELSE InsertByDistance(options[Len(options)],
                          SortByDistance(SubSeq(options, 1, Len(options) - 1), oneWeekLater),
                          oneWeekLater)

\* slice(0, 3)
TopThree(suggestedOptions) == SubSeq(suggestedOptions, 1, Min(3, Len(suggestedOptions)))

\* selectOptionToRoll: the rollover suggestions for the selected option, from
\* the available options of its type (each given by its expiration)
SelectOptionToRoll(expiration, availableOptions, clockChange) ==
    /\ calc = NoCalc
    /\ LET currentExpiry == Date(expiration)
           oneWeekLater == OneWeekLater(currentExpiry, clockChange)
           suggestedOptions == SortByDistance(LaterOptions(availableOptions, currentExpiry),
                                              oneWeekLater)
       IN  calc' = [op |-> "selectOptionToRoll",
                    expiration |-> expiration,
                    availableOptions |-> availableOptions,
                    clockChange |-> clockChange,
                    rolloverSuggestions |-> TopThree(suggestedOptions)]
    /\ TrackerIdle
    /\ TickersIdle
    /\ SellIdle

\* the sum of two ratios
RatioAdd(a, b) == Ratio(a[1] * b[2] + b[1] * a[2], a[2] * b[2])

\* portfolioSummary is null
NoPortfolioSummary ==
    [present |-> FALSE, account_value |-> 0, stock_value |-> 0, cash_balance |-> 0]

\* the summary calculateEarningsSummary starts from; weeklyReturn is a field
\* of the account version only and stays 0 in the other
InitialSummary(portfolioSummary) ==
    [totalWeeklyCallPremium |-> 0,
     totalWeeklyPutPremium |-> 0,
     totalWeeklyPremium |-> 0,
     portfolioValue |-> 0,
     projectedAnnualEarnings |-> 0,
     projectedAnnualReturn |-> Ratio(0, 1),
     weeklyReturn |-> Ratio(0, 1),
     totalPutExerciseCost |-> 0,
     cashBalance |-> IF portfolioSummary.present THEN portfolioSummary.cash_balance ELSE 0]

\* tickerData.putQuantity || Math.floor(sharesOwned / 100)
CustomPutQuantity(tickerData) ==
    OrElse(tickerData.putQuantity, MaxCallContracts(tickerData.position))

\* the body of the forEach over the option data of one ticker: a position of
\* fewer than 100 shares is skipped; callAsk and putAsk are the ask of the
\* first call and put, 0 when there is none
ProcessOptionData_Assigns(summary, tickerData) ==
    IF tickerData.position < 100
    THEN summary
    ELSE [summary EXCEPT
             !.portfolioValue = @ + tickerData.position * tickerData.stock_price,
             !.totalWeeklyCallPremium =
                 IF tickerData.callAsk # 0
                 THEN tickerData.callAsk * 100 * MaxCallContracts(tickerData.position)
                 ELSE @,
             !.totalWeeklyPutPremium =
                 IF tickerData.putAsk # 0
                 THEN @ + tickerData.putAsk * 100 * CustomPutQuantity(tickerData)
                 ELSE @,
             !.totalPutExerciseCost =
                 IF tickerData.putAsk # 0
                 THEN @ + tickerData.putStrike * CustomPutQuantity(tickerData) * 100
                 ELSE @]

ProcessOptionData(summary, tickerData) ==
    IF tickerData.position < 100
    THEN summary
    ELSE [summary EXCEPT
             !.portfolioValue = @ + tickerData.position * tickerData.stock_price,
             !.totalWeeklyCallPremium =
                 IF tickerData.callAsk # 0
                 THEN @ + tickerData.callAsk * 100 * MaxCallContracts(tickerData.position)
                 ELSE @,
             !.totalWeeklyPutPremium =
                 IF tickerData.putAsk # 0
                 THEN @ + tickerData.putAsk * 100 * CustomPutQuantity(tickerData)
                 ELSE @,
             !.totalPutExerciseCost =
                 IF tickerData.putAsk # 0
                 THEN @ + tickerData.putStrike * CustomPutQuantity(tickerData) * 100
                 ELSE @]

\* Object.values(tickersData).forEach(...): the tickers in their order
RECURSIVE ProcessTickers(_, _)
ProcessTickers(summary, tickers) ==
    IF tickers = << >>
    THEN summary
    ELSE ProcessTickers(ProcessOptionData(summary, Head(tickers)), Tail(tickers))

\* calculateEarningsSummary(tickersData) of the single options table
EarningsSummary(tickers, portfolioSummary) ==
    LET totals == ProcessTickers(InitialSummary(portfolioSummary), tickers)
        totalWeeklyPremium == totals.totalWeeklyCallPremium + totals.totalWeeklyPutPremium
        projectedAnnualEarnings == totalWeeklyPremium * 52
    IN  [totals EXCEPT
            !.totalWeeklyPremium = totalWeeklyPremium,
            !.projectedAnnualEarnings = projectedAnnualEarnings,
            !.projectedAnnualReturn =
                IF totals.portfolioValue > 0
                THEN Ratio(projectedAnnualEarnings * 100, totals.portfolioValue)
                ELSE @]

\* calculateEarningsSummary(tickersData) of the call and put tables: the
\* portfolio value and the cash balance come from portfolioSummary when there
\* is one, and the returns are taken against the account value
\* (window.portfolioData is not set anywhere and reads undefined)
AccountEarningsSummary(tickers, portfolioSummary) ==
    LET totals == ProcessTickers(InitialSummary(portfolioSummary), tickers)
        totalWeeklyPremium == totals.totalWeeklyCallPremium + totals.totalWeeklyPutPremium
        totalPortfolioValue ==
            IF ~portfolioSummary.present THEN 0
            ELSE IF portfolioSummary.account_value # 0 THEN portfolioSummary.account_value
            ELSE portfolioSummary.stock_value + portfolioSummary.cash_balance
    IN  [totals EXCEPT
            !.totalWeeklyPremium = totalWeeklyPremium,
            !.portfolioValue =
                IF portfolioSummary.present THEN portfolioSummary.stock_value ELSE @,
            !.cashBalance =
                IF portfolioSummary.present THEN portfolioSummary.cash_balance ELSE @,
            !.projectedAnnualEarnings = totalWeeklyPremium * 52,
            !.weeklyReturn =
                IF totalPortfolioValue > 0
                THEN Ratio(totalWeeklyPremium * 100, totalPortfolioValue)
                ELSE @,
            !.projectedAnnualReturn =
                IF totalPortfolioValue > 0
                THEN Ratio(totalWeeklyPremium * 52 * 100, totalPortfolioValue)
                ELSE @]

\* the summaries of two sets of tickers and of the two sets together
CalculateEarningsSummary(tickersA, tickersB, portfolioSummary) ==
    /\ calc = NoCalc
    /\ calc' = [op |-> "calculateEarningsSummary",
                tickersA |-> tickersA,
                tickersB |-> tickersB,
                portfolioSummary |-> portfolioSummary,
                ofA |-> EarningsSummary(tickersA, portfolioSummary),
                ofB |-> EarningsSummary(tickersB, portfolioSummary),
                ofBoth |-> EarningsSummary(tickersA \o tickersB, portfolioSummary)]
    /\ TrackerIdle
    /\ TickersIdle
    /\ SellIdle

CalculateAccountEarningsSummary(tickersA, tickersB, portfolioSummary) ==
    /\ calc = NoCalc
    /\ calc' = [op |-> "calculateAccountEarningsSummary",
                tickersA |-> tickersA,
                tickersB |-> tickersB,
                portfolioSummary |-> portfolioSummary,
                ofA |-> AccountEarningsSummary(tickersA, portfolioSummary),
                ofB |-> AccountEarningsSummary(tickersB, portfolioSummary),
                ofBoth |-> AccountEarningsSummary(tickersA \o tickersB, portfolioSummary)]
    /\ TrackerIdle
    /\ TickersIdle
    /\ SellIdle

\* calculateEarningsSummary(tickersData) of api.js: no position is skipped,
\* and the puts are counted in contracts of 100 owned shares like the calls
ApiProcessOptionData(summary, tickerData) ==
    [summary EXCEPT
        !.portfolioValue = @ + tickerData.position * tickerData.stock_price,
        !.totalWeeklyCallPremium =
            IF tickerData.callAsk # 0
            THEN @ + tickerData.callAsk * 100 * MaxCallContracts(tickerData.position)
            ELSE @,
        !.totalWeeklyPutPremium =
            IF tickerData.putAsk # 0
            THEN @ + tickerData.putAsk * 100 * MaxCallContracts(tickerData.position)
            ELSE @]

RECURSIVE ApiProcessTickers(_, _)
ApiProcessTickers(summary, tickers) ==
    IF tickers = << >>
    THEN summary
    ELSE ApiProcessTickers(ApiProcessOptionData(summary, Head(tickers)), Tail(tickers))

ApiEarningsSummary(tickers) ==
    LET totals == ApiProcessTickers([totalWeeklyCallPremium |-> 0,
                                     totalWeeklyPutPremium |-> 0,
                                     totalWeeklyPremium |-> 0,
                                     portfolioValue |-> 0,
                                     projectedAnnualEarnings |-> 0,
                                     projectedAnnualReturn |-> Ratio(0, 1)],
                                    tickers)
        totalWeeklyPremium == totals.totalWeeklyCallPremium + totals.totalWeeklyPutPremium
        projectedAnnualEarnings == totalWeeklyPremium * 52
    IN  [totals EXCEPT
            !.totalWeeklyPremium = totalWeeklyPremium,
            !.projectedAnnualEarnings = projectedAnnualEarnings,
            !.projectedAnnualReturn =
                IF totals.portfolioValue > 0
                THEN Ratio(projectedAnnualEarnings * 100, totals.portfolioValue)
                ELSE @]

CalculateApiEarningsSummary(tickersA, tickersB) ==
    /\ calc = NoCalc
    /\ calc' = [op |-> "calculateApiEarningsSummary",
                tickersA |-> tickersA,
                tickersB |-> tickersB,
                ofA |-> ApiEarningsSummary(tickersA),
                ofB |-> ApiEarningsSummary(tickersB),
                ofBoth |-> ApiEarningsSummary(tickersA \o tickersB)]
    /\ TrackerIdle
    /\ TickersIdle
    /\ SellIdle

\* the put quantity updateOptionsTable shows and stores for a row:
\* tickerData.putQuantity || 0, and for a row with a put option and quantity 0
\* the default, 1 for a custom ticker and Math.floor(sharesOwned / 100) otherwise
DefaultedPutQuantity(isCustom, sharesOwned, hasPutOption, putQuantity) ==
    IF hasPutOption /\ putQuantity = 0
    THEN IF isCustom THEN 1 ELSE MaxCallContracts(sharesOwned)
    ELSE putQuantity

\* exerciseCost of a row
ExerciseCost(hasPutOption, putStrike, putQuantity) ==
    IF hasPutOption /\ putQuantity > 0 THEN putStrike * putQuantity * 100 ELSE 0

\* portfolioImpact of a row: a percentage of the account value, 0 where there
\* is no put, no quantity, no portfolio summary or no positive account value
PortfolioImpact(hasPutOption, putStrike, putQuantity, portfolioSummary) ==
    IF /\ hasPutOption /\ putQuantity > 0
       /\ portfolioSummary.present /\ portfolioSummary.account_value > 0
    THEN Ratio(ExerciseCost(hasPutOption, putStrike, putQuantity) * 100,
               portfolioSummary.account_value)
    ELSE Ratio(0, 1)

\* portfolioImpactDisplay: the formatted percentage, or 'N/A'
PortfolioImpactDisplay(portfolioImpact) ==
    IF portfolioImpact[1] > 0 THEN "percentage" ELSE "N/A"

\* updateOptionsTable: the put quantity, exercise cost and portfolio impact of
\* one row
UpdateOptionsTablePutSide(isCustom, sharesOwned, hasPutOption, putStrike, putQuantity, portfolioSummary) ==
    /\ calc = NoCalc
    /\ LET quantity == DefaultedPutQuantity(isCustom, sharesOwned, hasPutOption, putQuantity)
           portfolioImpact == PortfolioImpact(hasPutOption, putStrike, quantity,
                                              portfolioSummary)
       IN  calc' = [op |-> "updateOptionsTablePutSide",
                    isCustom |-> isCustom,
                    sharesOwned |-> sharesOwned,
                    hasPutOption |-> hasPutOption,
                    putStrike |-> putStrike,
                    portfolioSummary |-> portfolioSummary,
                    putQuantity |-> quantity,
                    exerciseCost |-> ExerciseCost(hasPutOption, putStrike, quantity),
                    portfolioImpact |-> portfolioImpact,
                    portfolioImpactDisplay |-> PortfolioImpactDisplay(portfolioImpact)]
    /\ TrackerIdle
    /\ TickersIdle
    /\ SellIdle

\* a JavaScript number that is a whole number, or NaN
Number(value) == [nan |-> FALSE, value |-> value]
NaN == [nan |-> TRUE, value |-> 0]

\* the value of a number input: what was typed when it is a number, counted
\* in halves so that 3 stands for 1.5, and the empty string otherwise
TypedNumber(halves) == [numeric |-> TRUE, halves |-> halves]
NotANumber == [numeric |-> FALSE, halves |-> 0]

\* parseInt(value, 10): the digits before the decimal point, NaN when there
\* are none
ParseInt(input) ==
    IF ~input.numeric
    THEN NaN
    ELSE IF input.halves < 0
         THEN Number(0 - ((0 - input.halves) \div 2))
         ELSE Number(input.halves \div 2)

\* the OTM percentages of a ticker of the call and put tables after the
\* handler stored the parsed value for the input's option type
StoreOtmPercentage(tickerData, optionType, input) ==
    IF optionType = "CALL"
    THEN [tickerData EXCEPT !.callOtmPercentage = ParseInt(input)]
    ELSE [tickerData EXCEPT !.putOtmPercentage = ParseInt(input)]

\* the ticker of the call and put tables as refreshOptionsForTicker sets it up
InitialOtmTickerData == [callOtmPercentage |-> Number(10), putOtmPercentage |-> Number(10)]

\* the change listener of an .otm-input
OtmInputChange(optionType, input) ==
    /\ calc = NoCalc
    /\ calc' = [op |-> "otmInputChange",
                optionType |-> optionType,
                input |-> input,
                tickerData |-> StoreOtmPercentage(InitialOtmTickerData, optionType, input)]
    /\ TrackerIdle
    /\ TickersIdle
    /\ SellIdle

\* the click handler of a .refresh-otm button, up to the refresh it starts
RefreshOtmClick(optionType, input) ==
    /\ calc = NoCalc
    /\ calc' = [op |-> "refreshOtmClick",
                optionType |-> optionType,
                input |-> input,
                tickerData |-> StoreOtmPercentage(InitialOtmTickerData, optionType, input)]
    /\ TrackerIdle
    /\ TickersIdle
    /\ SellIdle

\* prices and strikes of the OTM rows, in steps of ten
QuotedPrices == {10 * k : k \in 0..MaxPriceTens}

StockPrices == 0..MaxStockPrice
PutStrikes == 0..MaxStrike
CashBalances == {100 * k : k \in 0..MaxCashHundreds}
TickerCounts == 0..MaxTickers

\* expirations of the selected option and of the available options
SelectedExpirations == {CalendarDate(6, 21), CalendarDate(6, 28)}
AvailableExpirations ==
    {CalendarDate(6, 20), CalendarDate(6, 28), CalendarDate(6, 29),
     CalendarDate(7, 5), CalendarDate(7, 12)}
SeqsUpTo(S, n) == UNION {[1..k -> S] : k \in 0..n}
ClockChanges == {-1, 0, 1}
\* what a user can leave in a number input: -1, 0, 1, 1.5, 10, 50, 51, or no number
InputValues == {NotANumber} \cup {TypedNumber(halves) : halves \in {-2, 0, 2, 3, 20, 100, 102}}
\* the shares owned of a row of the options table
RowShares == {0, 50, 100, 250}

\* the data of one ticker, and the sets of tickers that are summarised
TickerDataSet ==
    [position : {50, 100, 200}, stock_price : {0, 10}, callAsk : {0, 1},
     putAsk : {0, 2}, putStrike : {9}, putQuantity : {0, 3}]
TickerSets == {<< >>} \cup {<<tickerData>> : tickerData \in TickerDataSet}
PortfolioSummaries ==
    {NoPortfolioSummary,
     [present |-> TRUE, account_value |-> 0, stock_value |-> 4000, cash_balance |-> 500],
     [present |-> TRUE, account_value |-> 10000, stock_value |-> 4000, cash_balance |-> 6000]}

ShareCounts == 0..MaxShares
PutQuantities == 0..MaxPutQuantity

\* one calculation of the options table, the rollover page or the portfolio
\* summary, on inputs of the bounded sets; a behaviour holds one calculation
\* one calculation on inputs of the bounded sets; a behaviour holds one
\* calculation, so each is offered only while none has been made
OptionsNext ==
    \/ /\ calc = NoCalc
       /\ \E isCustom \in BOOLEAN, isPortfolioTicker \in BOOLEAN, sharesOwned \in ShareCounts,
             hasCall \in BOOLEAN, hasPut \in BOOLEAN, putQuantity \in PutQuantities :
              OrderOptionsForTicker(isCustom, isPortfolioTicker, sharesOwned, hasCall, hasPut, putQuantity)
    \/ /\ calc = NoCalc
       /\ \E optionType \in OptionTypes, sharesOwned \in ShareCounts, putQuantity \in PutQuantities :
              SellOption(optionType, sharesOwned, putQuantity)
    \/ /\ calc = NoCalc
       /\ \E optionType \in OptionTypes, sharesOwned \in ShareCounts, putQuantity \in PutQuantities :
              SellAllOptions(optionType, sharesOwned, putQuantity)
    \/ /\ calc = NoCalc
       /\ \E status \in RolloverStatuses : PopulatePendingOrdersTable(status)
    \/ /\ calc = NoCalc
       /\ \E hasPortfolioSummary \in BOOLEAN, stockPrice \in StockPrices, putStrike \in PutStrikes,
             cashBalance \in CashBalances, tickerCount \in TickerCounts :
              CalculateRecommendedPutQuantity(hasPortfolioSummary, stockPrice, putStrike,
                                              cashBalance, tickerCount)
    \/ /\ calc = NoCalc
       /\ \E stockPrice \in QuotedPrices, callStrike \in QuotedPrices, putStrike \in QuotedPrices :
              UpdateOptionsTable(stockPrice, callStrike, putStrike)
    \/ /\ calc = NoCalc
       /\ \E stockPrice \in QuotedPrices, callStrike \in QuotedPrices, putStrike \in QuotedPrices :
              UpdateOptionsTables(stockPrice, callStrike, putStrike)
    \/ /\ calc = NoCalc
       /\ \E hasCallData \in BOOLEAN, callPrice \in StockPrices,
             hasPutData \in BOOLEAN, putPrice \in StockPrices :
              RefreshOptionsForTickerMergedData(hasCallData, callPrice, hasPutData, putPrice)
    \/ /\ calc = NoCalc
       /\ \E storedPrice \in StockPrices, hasCallData \in BOOLEAN, callPrice \in StockPrices,
             hasPutData \in BOOLEAN, putPrice \in StockPrices :
              RefreshOptionsForTicker(storedPrice, hasCallData, callPrice, hasPutData, putPrice)
    \/ /\ calc = NoCalc
       /\ \E storedPrice \in StockPrices, optionType \in OptionTypes,
             hasData \in BOOLEAN, price \in StockPrices :
              RefreshOptionsForTickerByType(storedPrice, optionType, hasData, price)
    \/ /\ calc = NoCalc
       /\ \E expiration \in SelectedExpirations,
             availableOptions \in SeqsUpTo(AvailableExpirations, MaxOptions),
             clockChange \in ClockChanges :
              SelectOptionToRoll(expiration, availableOptions, clockChange)
    \/ /\ calc = NoCalc
       /\ \E tickersA \in TickerSets, tickersB \in TickerSets,
             portfolioSummary \in PortfolioSummaries :
              CalculateEarningsSummary(tickersA, tickersB, portfolioSummary)
    \/ /\ calc = NoCalc
       /\ \E tickersA \in TickerSets, tickersB \in TickerSets,
             portfolioSummary \in PortfolioSummaries :
              CalculateAccountEarningsSummary(tickersA, tickersB, portfolioSummary)
    \/ /\ calc = NoCalc
       /\ \E tickersA \in TickerSets, tickersB \in TickerSets :
              CalculateApiEarningsSummary(tickersA, tickersB)
    \/ /\ calc = NoCalc
       /\ \E isCustom \in BOOLEAN, sharesOwned \in RowShares, hasPutOption \in BOOLEAN,
             putStrike \in PutStrikes, putQuantity \in PutQuantities,
             portfolioSummary \in PortfolioSummaries :
              UpdateOptionsTablePutSide(isCustom, sharesOwned, hasPutOption, putStrike,
                                        putQuantity, portfolioSummary)
    \/ /\ calc = NoCalc
       /\ \E optionType \in OptionTypes, input \in InputValues :
              OtmInputChange(optionType, input)
    \/ /\ calc = NoCalc
       /\ \E optionType \in OptionTypes, input \in InputValues :
              RefreshOtmClick(optionType, input)

OptionsSpec == Init /\ [][OptionsNext]_vars

\* ------------------------------------------------------ ticker working state
\* The working state of the single options table: tickersData, the custom
\* ticker list of localStorage and the option data requests in flight. The
\* handlers run under a specification of their own. Their alerts are not
\* part of the working state and are left out, and so are the timestamp and
\* the quotes of a ticker: of the fetched data a ticker record keeps whether
\* it is there (loaded), the position and whether there is a put option.
Tickers == {"AAPL", "XYZ"}

\* the elements of a list
Range(list) == {list[i] : i \in DOMAIN list}

\* the tickers of the account as fetchTickers returns them
PortfolioLists == {<< >>, <<"AAPL">>}

\* the value the OTM slider delivers (min 5, max 30) that is modelled
SliderValues == {30}

\* the data fetchOptionData resolves to: nothing, or the data of the ticker
NoData == [loaded |-> FALSE, position |-> 0, hasPut |-> FALSE]
ResponseData ==
    {NoData,
     [loaded |-> TRUE, position |-> 0, hasPut |-> TRUE],
     [loaded |-> TRUE, position |-> 200, hasPut |-> TRUE]}

\* what is typed into a put quantity input: -1, 1.5, or no number
PutQtyInputValues == {NotANumber, TypedNumber(-2), TypedNumber(3)}

\* a ticker record; a flag that the record does not have reads as FALSE
TickerRecord(data, otmPercentage, putQuantity, isPortfolioTicker, isCustom, callsDisabled) ==
    [loaded |-> data.loaded,
     position |-> data.position,
     hasPut |-> data.hasPut,
     otmPercentage |-> otmPercentage,
     putQuantity |-> putQuantity,
     isPortfolioTicker |-> isPortfolioTicker,
     isCustom |-> isCustom,
     callsDisabled |-> callsDisabled]

\* tickersData with the record of one ticker set, and with one ticker deleted
WithTicker(data, ticker, record) ==
    [t \in DOMAIN data \cup {ticker} |-> IF t = ticker THEN record ELSE data[t]]
WithoutTicker(data, ticker) == [t \in DOMAIN data \ {ticker} |-> data[t]]

\* updateOptionsTable shows a row with the options of a ticker: the ticker
\* has data and is a custom ticker or has at least 100 shares
RowShown(data, ticker) ==
    /\ ticker \in DOMAIN data
    /\ data[ticker].loaded
    /\ data[ticker].isCustom \/ data[ticker].position >= 100

\* updateOptionsTable: what building the rows stores, the default put
\* quantity of a shown ticker with a put option and no quantity
Rendered(data) ==
    [t \in DOMAIN data |->
        IF RowShown(data, t) /\ data[t].hasPut /\ data[t].putQuantity = 0
        THEN [data[t] EXCEPT !.putQuantity =
                 DefaultedPutQuantity(data[t].isCustom, data[t].position, TRUE, 0)]
        ELSE data[t]]

\* tickersData[ticker]?.otmPercentage || 10
OtmPercentageOf(data, ticker) ==
    IF ticker \in DOMAIN data THEN OrElse(data[ticker].otmPercentage, 10) ELSE 10

\* a fetchOptionData call: the ticker, the OTM percentage read before the
\* call, the loop the call belongs to ("single", "load" for loadTickers, "all"
\* for refreshAllOptions) and the tickers the loop still has to refresh
Refresh(data, ticker, loop, rest) ==
    [ticker |-> ticker, otmPercentage |-> OtmPercentageOf(data, ticker),
     loop |-> loop, rest |-> rest]

\* the list without its i-th element
RemoveAt(list, i) == SubSeq(list, 1, i - 1) \o SubSeq(list, i + 1, Len(list))

\* the handlers leave the order tracker and the calculations alone
OrdersIdle == TrackerIdle /\ UNCHANGED calc /\ SellIdle

\* addCustomTicker(ticker) for a ticker that is not in the list yet
AddCustomTicker(ticker) ==
    /\ ticker \notin Range(customTickers)
    /\ Len(refreshes) < MaxRefreshes
    /\ customTickers' = Append(customTickers, ticker)
    /\ LET added ==
               IF ticker \notin DOMAIN tickersData
               THEN WithTicker(tickersData, ticker,
                               TickerRecord(NoData, 10, 1, FALSE, TRUE, TRUE))
               ELSE [tickersData EXCEPT ![ticker].isCustom = TRUE]
       IN  /\ tickersData' = added
           /\ refreshes' = Append(refreshes, Refresh(added, ticker, "single", << >>))
    /\ OrdersIdle

\* removeCustomTicker(ticker), from the remove button of a listed ticker
RemoveCustomTicker(ticker) ==
    /\ ticker \in Range(customTickers)
    /\ customTickers' = SelectSeq(customTickers, LAMBDA t : t # ticker)
    /\ tickersData' =
           Rendered(IF ticker \in DOMAIN tickersData
                    THEN IF tickersData[ticker].isPortfolioTicker
                         THEN [tickersData EXCEPT ![ticker].isCustom = FALSE,
                                                  ![ticker].callsDisabled = FALSE]
                         ELSE WithoutTicker(tickersData, ticker)
                    ELSE tickersData)
    /\ UNCHANGED refreshes
    /\ OrdersIdle

\* [...new Set([...portfolioTickers, ...customTickers])]
AllTickers(portfolioTickers, custom) ==
    portfolioTickers \o SelectSeq(custom, LAMBDA t : t \notin Range(portfolioTickers))

\* loadTickers, from the answer of fetchTickers on: the records are created
\* or their flags set, the table is built and the first ticker is refreshed
LoadTickers(portfolioTickers) ==
    /\ Len(refreshes) < MaxRefreshes
    /\ LET allTickers == AllTickers(portfolioTickers, customTickers)
           isPortfolioTicker(t) == t \in Range(portfolioTickers)
           isCustomTicker(t) == t \in Range(customTickers)
           initialised ==
               [t \in DOMAIN tickersData \cup Range(allTickers) |->
                   IF t \notin Range(allTickers) THEN tickersData[t]
                   ELSE IF t \notin DOMAIN tickersData
                   THEN TickerRecord(NoData, 10, 0, isPortfolioTicker(t), isCustomTicker(t),
                                     isCustomTicker(t) /\ ~isPortfolioTicker(t))
                   ELSE [tickersData[t] EXCEPT
                            !.isPortfolioTicker = isPortfolioTicker(t),
                            !.isCustom = isCustomTicker(t),
                            !.callsDisabled = isCustomTicker(t) /\ ~isPortfolioTicker(t)]]
           shown == Rendered(initialised)
       IN  /\ tickersData' = shown
           /\ refreshes' =
                  IF allTickers = << >>
                  THEN refreshes
                  ELSE Append(refreshes,
                              Refresh(shown, Head(allTickers), "load", Tail(allTickers)))
    /\ UNCHANGED customTickers
    /\ OrdersIdle

\* the click on the refresh button of a ticker's row: refreshOptionsForTicker
\* up to its fetchOptionData call
RefreshOptionsClick(ticker) ==
    /\ ticker \in DOMAIN tickersData
    /\ Len(refreshes) < MaxRefreshes
    /\ refreshes' = Append(refreshes, Refresh(tickersData, ticker, "single", << >>))
    /\ UNCHANGED <<tickersData, customTickers>>
    /\ OrdersIdle

\* Object.keys(tickersData), taken in the order of the ticker symbols
Keys(data) == SelectSeq(<<"AAPL", "XYZ">>, LAMBDA t : t \in DOMAIN data)

\* refreshAllOptions, from the answer of fetchAccountData on, up to the first
\* fetchOptionData call
RefreshAllOptions ==
    /\ DOMAIN tickersData # {}
    /\ Len(refreshes) < MaxRefreshes
    /\ LET tickers == Keys(tickersData)
       IN  refreshes' = Append(refreshes,
                               Refresh(tickersData, Head(tickers), "all", Tail(tickers)))
    /\ UNCHANGED <<tickersData, customTickers>>
    /\ OrdersIdle

\* the record a refresh stores for a ticker when the data arrived: the data,
\* the OTM percentage read before the call and the put quantity of now
RefreshedRecord(data, refresh, response) ==
    TickerRecord(response, refresh.otmPercentage,
                 IF refresh.ticker \in DOMAIN data THEN data[refresh.ticker].putQuantity ELSE 0,
                 FALSE, FALSE, FALSE)

\* fetchOptionData answers the i-th call in flight: the ticker's record is
\* replaced when there is data, the table is built where the loop does so,
\* and the loop goes on to its next ticker
RefreshResponds(i, response) ==
    /\ i \in DOMAIN refreshes
    /\ LET refresh == refreshes[i]
           stored == IF response.loaded
                     THEN WithTicker(tickersData, refresh.ticker,
                                     RefreshedRecord(tickersData, refresh, response))
                     ELSE tickersData
           builds == \/ refresh.loop = "single" /\ response.loaded
                     \/ refresh.loop = "load" /\ (response.loaded \/ refresh.rest = << >>)
                     \/ refresh.loop = "all" /\ refresh.rest = << >>
           shown == IF builds THEN Rendered(stored) ELSE stored
       IN  /\ tickersData' = shown
           /\ refreshes' =
                  IF refresh.rest = << >>
                  THEN RemoveAt(refreshes, i)
                  ELSE [refreshes EXCEPT
                           ![i] = Refresh(shown, Head(refresh.rest), refresh.loop,
                                          Tail(refresh.rest))]
    /\ UNCHANGED customTickers
    /\ OrdersIdle

\* the input listener of a shown ticker's OTM slider
OtmSliderInput(ticker, value) ==
    /\ RowShown(tickersData, ticker)
    /\ tickersData' = [tickersData EXCEPT ![ticker].otmPercentage = value]
    /\ UNCHANGED <<customTickers, refreshes>>
    /\ OrdersIdle

\* parseInt(this.value) || 0
ParseIntOrZero(input) == IF ParseInt(input).nan THEN 0 ELSE ParseInt(input).value

\* the change listener of a put quantity input: the value is stored and the
\* table is built again
StorePutQuantity(ticker, value) ==
    tickersData' = Rendered([tickersData EXCEPT ![ticker].putQuantity = value])

\* the user types a value into the put quantity input of a shown ticker; the
\* input is disabled when the ticker has no put option
PutQtyInputChange(ticker, input) ==
    /\ RowShown(tickersData, ticker)
    /\ tickersData[ticker].hasPut
    /\ StorePutQuantity(ticker, ParseIntOrZero(input))
    /\ UNCHANGED <<customTickers, refreshes>>
    /\ OrdersIdle

\* the click on the + button of a shown ticker: the input shows the stored
\* quantity, gets one more and its change listener runs
IncrementPutQty(ticker) ==
    /\ RowShown(tickersData, ticker)
    /\ tickersData[ticker].putQuantity < MaxPutQuantity
    /\ StorePutQuantity(ticker, tickersData[ticker].putQuantity + 1)
    /\ UNCHANGED <<customTickers, refreshes>>
    /\ OrdersIdle

\* the click on the - button of a shown ticker, which does nothing at 0 or below
DecrementPutQty(ticker) ==
    /\ RowShown(tickersData, ticker)
    /\ tickersData[ticker].putQuantity > 0
    /\ StorePutQuantity(ticker, tickersData[ticker].putQuantity - 1)
    /\ UNCHANGED <<customTickers, refreshes>>
    /\ OrdersIdle

TickersNext ==
    \/ \E ticker \in Tickers : AddCustomTicker(ticker)
    \/ \E ticker \in Tickers : RemoveCustomTicker(ticker)
    \/ \E portfolioTickers \in PortfolioLists : LoadTickers(portfolioTickers)
    \/ \E ticker \in Tickers : RefreshOptionsClick(ticker)
    \/ RefreshAllOptions
    \/ \E i \in 1..MaxRefreshes, response \in ResponseData : RefreshResponds(i, response)
    \/ \E ticker \in Tickers, value \in SliderValues : OtmSliderInput(ticker, value)
    \/ \E ticker \in Tickers, input \in PutQtyInputValues : PutQtyInputChange(ticker, input)
    \/ \E ticker \in Tickers : IncrementPutQty(ticker)
    \/ \E ticker \in Tickers : DecrementPutQty(ticker)

TickersSpec == Init /\ [][TickersNext]_vars

\* ------------------------------------------------- the Sell buttons
\* The click handler of the options table container (event delegation) for a
\* Sell button, with the rebuilding of the table that replaces the buttons.
\* A handler keeps the button it was started from: `attached` tells whether
\* that button is still the one in the table.

\* a Sell click handler at its first await
SaveHandler(optionType) == [optionType |-> optionType, attached |-> TRUE, pc |-> "save"]

\* the handlers leave the order tracker, the calculations and the working
\* state alone; they alert and log
SellFrame ==
    UNCHANGED <<pendingOrdersData, autoRefreshTimer, intervals, inflight, pollSuspended,
                refreshTimeouts, page, calc, tickersData, customTickers, refreshes>>

\* the handlers of requests for the option type that are awaited
SavesOf(optionType) == {i \in DOMAIN saves : saves[i].optionType = optionType}

\* click on the Sell button of an option: a disabled button is ignored,
\* otherwise the button is disabled and saveOptionOrder is awaited
ClickSell(optionType) ==
    /\ ~sellDisabled[optionType]
    /\ Len(saves) < MaxSaves
    /\ sellDisabled' = [sellDisabled EXCEPT ![optionType] = TRUE]
    /\ saves' = Append(saves, SaveHandler(optionType))
    /\ NoAlert
    /\ NoError
    /\ UNCHANGED tableRefreshes
    /\ SellFrame

\* the finally block: the handler's own button reads Sell and is enabled
\* again, which shows only if that button is still in the table
Finally(i) ==
    /\ sellDisabled' = IF saves[i].attached
                       THEN [sellDisabled EXCEPT ![saves[i].optionType] = FALSE]
                       ELSE sellDisabled
    /\ saves' = RemoveAt(saves, i)

\* saveOptionOrder returned a result with an order id: refreshPendingOrders
\* is awaited
SaveSucceeds(i) ==
    /\ i \in DOMAIN saves
    /\ saves[i].pc = "save"
    /\ saves' = [saves EXCEPT ![i].pc = "refresh"]
    /\ NoAlert
    /\ NoError
    /\ UNCHANGED <<sellDisabled, tableRefreshes>>
    /\ SellFrame

\* saveOptionOrder returned a result without an order id
SaveWithoutOrderId(i) ==
    /\ i \in DOMAIN saves
    /\ saves[i].pc = "save"
    /\ Finally(i)
    /\ NoAlert
    /\ LogError("Failed to save order")
    /\ UNCHANGED tableRefreshes
    /\ SellFrame

\* saveOptionOrder alerted and threw
SaveFails(i) ==
    /\ i \in DOMAIN saves
    /\ saves[i].pc = "save"
    /\ Finally(i)
    /\ ShowAlert("Error saving order")
    /\ LogError("Error saving order")
    /\ UNCHANGED tableRefreshes
    /\ SellFrame

\* refreshPendingOrders returned (it catches its own errors)
PendingOrdersRefreshed(i) ==
    /\ i \in DOMAIN saves
    /\ saves[i].pc = "refresh"
    /\ Finally(i)
    /\ NoAlert
    /\ NoError
    /\ UNCHANGED tableRefreshes
    /\ SellFrame

\* click on a ticker's Refresh button: refreshOptionsForTicker(ticker, true)
\* is awaited
ClickRefresh ==
    /\ tableRefreshes < MaxTableRefreshes
    /\ tableRefreshes' = tableRefreshes + 1
    /\ NoAlert
    /\ NoError
    /\ UNCHANGED <<sellDisabled, saves>>
    /\ SellFrame

\* updateOptionsTable: the container is emptied and the rows are built anew,
\* each with an enabled Sell button; the buttons of the handlers under way
\* are no longer in the table
RebuiltButtons == [optionType \in OptionTypes |-> FALSE]
Detached(handlers) == [i \in DOMAIN handlers |-> [handlers[i] EXCEPT !.attached = FALSE]]

\* the option data arrived: the working state is updated and, updateUI being
\* true, the table is rebuilt
TableRefreshed ==
    /\ tableRefreshes > 0
    /\ tableRefreshes' = tableRefreshes - 1
    /\ sellDisabled' = RebuiltButtons
    /\ saves' = Detached(saves)
    /\ NoAlert
    /\ NoError
    /\ SellFrame

\* fetchOptionData threw: the error is alerted and the table stays
TableRefreshFails ==
    /\ tableRefreshes > 0
    /\ tableRefreshes' = tableRefreshes - 1
    /\ ShowAlert("Error refreshing options")
    /\ LogError("Error refreshing options")
    /\ UNCHANGED <<sellDisabled, saves>>
    /\ SellFrame

SellNext ==
    \/ \E optionType \in OptionTypes : ClickSell(optionType)
    \/ \E i \in 1..MaxSaves : SaveSucceeds(i)
    \/ \E i \in 1..MaxSaves : SaveWithoutOrderId(i)
    \/ \E i \in 1..MaxSaves : SaveFails(i)
    \/ \E i \in 1..MaxSaves : PendingOrdersRefreshed(i)
    \/ ClickRefresh
    \/ TableRefreshed
    \/ TableRefreshFails

SellSpec == Init /\ [][SellNext]_vars

\* ------------------------------------------------------------- properties
Fields == {"status", "ib_order_id", "ib_status"}
NonTerminalStatuses == Statuses \ TerminalStatuses
StatusOf(orders, o) == orders[o].status
\* some tracked order is in processing or canceling
AnyInProgress(orders) == \E o \in DOMAIN orders : StatusOf(orders, o) \in {"processing", "canceling"}
\* there are tracked orders and each is in a terminal status
AllTerminal(orders) ==
    DOMAIN orders # {} /\ \A o \in DOMAIN orders : StatusOf(orders, o) \in TerminalStatuses
\* the orders tracked before and after a step
Kept == DOMAIN pendingOrdersData \cap DOMAIN pendingOrdersData'
\* the step handled the response to a request r
Handled(r) == inflight[r] > 0 /\ inflight' = Receive(r)

\* C1: once a tracked order's status is executed, canceled or rejected, no
\* later step (poll merge, execute, cancel, reload) changes its status.
C1_TerminalStatusIsFinal ==
    [][\A o \in Kept :
          StatusOf(pendingOrdersData, o) \in TerminalStatuses
              => StatusOf(pendingOrdersData', o) = StatusOf(pendingOrdersData, o)]_vars

\* C2: every status change made by an execute, a cancel or a poll merge
\* follows an edge of the order state machine.
StateMachineEdges ==
    {<<"pending", "processing">>, <<"processing", "executed">>,
     <<"processing", "canceling">>, <<"canceling", "canceled">>,
     <<"pending", "canceled">>}
    \cup {<<st, "rejected">> : st \in NonTerminalStatuses}
C2_OnlyStateMachineEdges ==
    [][~Handled(LoadReq) =>
          \A o \in Kept :
              StatusOf(pendingOrdersData', o) # StatusOf(pendingOrdersData, o)
                  => <<StatusOf(pendingOrdersData, o), StatusOf(pendingOrdersData', o)>>
                         \in StateMachineEdges]_vars

\* C3: at most one status-poll request is in flight at any time.
C3_OnePollInFlight == inflight[PollReq] <= 1

\* C4: whenever a step brings a tracked order into processing or canceling,
\* the polling timer is running once the step is done.
CameInProgress(o) ==
    /\ o \in DOMAIN pendingOrdersData'
    /\ StatusOf(pendingOrdersData', o) \in {"processing", "canceling"}
    /\ (o \in DOMAIN pendingOrdersData => StatusOf(pendingOrdersData, o) \notin {"processing", "canceling"})
C4_TimerRunsForOrdersInProgress ==
    [][(\E o \in OrderIds : CameInProgress(o)) => autoRefreshTimer' /\ intervals' > 0]_vars

\* a successful execute or cancel of a tracked order was handled
OptimisticTransition ==
    \E o \in Kept :
        \/ Handled(ExecuteReq(o)) /\ alert' = "Order sent to TWS"
        \/ Handled(CancelReq(o)) /\ alert' = "Order cancellation requested"
\* the handler of a poll result ran to its end
PollResultDone ==
    \/ /\ Handled(PollReq)
       /\ pollSuspended' = pollSuspended
       /\ \E result \in PollResults : PollSucceeds(result)
    \/ PollResumes
\* the same, for a poll result that carried updates
PollMergeDone ==
    \/ /\ Handled(PollReq)
       /\ pollSuspended' = pollSuspended
       /\ \E result \in PollResults : ResultHasUpdates(result) /\ PollSucceeds(result)
    \/ PollResumes
TimerStopped == ~autoRefreshTimer /\ intervals = 0
TimerRunning == autoRefreshTimer /\ intervals = 1

\* C5 as stated: after every poll result and after every optimistic
\* transition by execute or cancel, if no tracked order is in processing or
\* canceling then the timer is not running.
C5_TimerCheckedAfterEveryResultAndIntent ==
    [][(PollResultDone \/ OptimisticTransition)
          => (~AnyInProgress(pendingOrdersData') => TimerStopped')]_vars

\* C5 amended: after a poll result that carried updates is merged, if no
\* tracked order is in processing or canceling then the timer is not running;
\* a successful execute or cancel makes no such check and leaves the timer
\* running.
C5_TimerCheckedAfterMerge ==
    [][/\ PollMergeDone => (~AnyInProgress(pendingOrdersData') => TimerStopped')
       /\ OptimisticTransition => TimerRunning']_vars

\* C5 witness: a cancel has just succeeded, no order is in processing or
\* canceling, and the timer runs.
C5_Witness ==
    /\ page = "ready"
    /\ alert = "Order cancellation requested"
    /\ \E o \in Tracked : StatusOf(pendingOrdersData, o) = "canceled"
    /\ ~AnyInProgress(pendingOrdersData)
    /\ TimerRunning

\* C6: once every tracked order is in a terminal status, the next tick sends
\* no request and leaves the timer cleared.
C6_PollingStopsAtNextTick ==
    [][(Tick /\ AllTerminal(pendingOrdersData)) => (TimerStopped' /\ inflight' = inflight)]_vars

\* C6 witness: an order executed from this page (fallback broker id) was
\* reconciled to executed by a poll, every order is terminal, the timer is
\* cleared.
C6_Witness ==
    /\ page = "ready"
    /\ AllTerminal(pendingOrdersData)
    /\ \E o \in Tracked :
           /\ StatusOf(pendingOrdersData, o) = "executed"
           /\ pendingOrdersData[o].ib_order_id = "Unknown"
    /\ TimerStopped
    /\ inflight[PollReq] = 0 /\ pollSuspended = 0

\* what the response carries as broker order id and broker status
ResponseBrokerId(result) ==
    IF result.execution_details.present THEN result.execution_details.ib_order_id ELSE result.ib_order_id
ResponseBrokerStatus(result) ==
    IF result.execution_details.present THEN result.execution_details.ib_status ELSE result.ib_status

\* C7 as stated: after a successful execute the order is processing and the
\* broker order id and broker status the response carries are the stored ones.
C7_ExecuteStoresResponse ==
    [][\A o \in Kept : Handled(ExecuteReq(o)) =>
          \A result \in ExecuteResults : ExecuteSucceeds(o, result) =>
              /\ pendingOrdersData'[o].status = "processing"
              /\ ResponseBrokerId(result) # NoVal =>
                    pendingOrdersData'[o].ib_order_id = ResponseBrokerId(result)
              /\ ResponseBrokerStatus(result) # NoVal =>
                    pendingOrdersData'[o].ib_status = ResponseBrokerStatus(result)]_vars

\* C7 amended: after a successful execute the order is processing; with
\* execution_details in the response the broker order id and status are those
\* of the details; without, the broker order id is the response's ib_order_id
\* ("Unknown" when it has none) and the broker status is "Submitted".
C7_ExecuteStoresDetailsOrFallback ==
    [][\A o \in Kept : Handled(ExecuteReq(o)) =>
          \A result \in ExecuteResults : ExecuteSucceeds(o, result) =>
              /\ pendingOrdersData'[o].status = "processing"
              /\ result.execution_details.present =>
                    /\ pendingOrdersData'[o].ib_order_id = result.execution_details.ib_order_id
                    /\ pendingOrdersData'[o].ib_status = result.execution_details.ib_status
              /\ ~result.execution_details.present =>
                    /\ pendingOrdersData'[o].ib_order_id \in {result.ib_order_id, "Unknown"}
                    /\ (pendingOrdersData'[o].ib_order_id = "Unknown") = (result.ib_order_id = NoVal)
                    /\ pendingOrdersData'[o].ib_status = "Submitted"]_vars

\* C7 witness: an execute has just succeeded without execution_details and
\* without a broker order id.
C7_Witness ==
    /\ alert = "Order sent to TWS"
    /\ \E o \in Tracked :
           pendingOrdersData[o] = [status |-> "processing", ib_order_id |-> "Unknown", ib_status |-> "Submitted"]

\* C8: a failed execute or cancel leaves every tracked order as it was and
\* shows an error alert.
C8_FailureLeavesStatusAndAlerts ==
    [][\A o \in OrderIds : (ExecuteFails(o) \/ CancelFails(o)) =>
          /\ pendingOrdersData' = pendingOrdersData
          /\ AlertType(alert') = "danger"
          /\ alert' \in {"Error executing order", "Error cancelling order"}]_vars

\* C8 witness: an execute has just failed and the order is still pending.
C8_Witness ==
    /\ alert = "Error executing order"
    /\ \E o \in Tracked : StatusOf(pendingOrdersData, o) = "pending"

\* C9 as stated: after a successful cancel the order is canceling, and it is
\* canceled only if the broker acknowledged the cancellation at once (a
\* response without a broker status, of an order the broker never had, counts
\* as acknowledged).
C9_CanceledOnlyOnAcknowledgement ==
    [][\A o \in Kept : Handled(CancelReq(o)) =>
          \A result \in CancelResults : CancelSucceeds(o, result) =>
              /\ pendingOrdersData'[o].status \in {"canceling", "canceled"}
              /\ pendingOrdersData'[o].status = "canceled" => result.ib_status \in {"Cancelled", NoVal}]_vars

\* C9 amended: after a successful cancel the order is canceling exactly when
\* the response's broker status is PendingCancel, and canceled for every
\* other response, one without a broker status included.
C9_CancelingOnlyOnPendingCancel ==
    [][\A o \in Kept : Handled(CancelReq(o)) =>
          \A result \in CancelResults : CancelSucceeds(o, result) =>
              /\ (pendingOrdersData'[o].status = "canceling") = (result.ib_status = "PendingCancel")
              /\ (pendingOrdersData'[o].status = "canceled") = (result.ib_status # "PendingCancel")]_vars

\* C9 witness: a cancel has just succeeded with the broker status Filled and
\* the order shows canceled.
C9_Witness ==
    /\ alert = "Order cancellation requested"
    /\ \E o \in Tracked :
           /\ StatusOf(pendingOrdersData, o) = "canceled"
           /\ pendingOrdersData[o].ib_status = "Filled"

\* C10: a poll merge overwrites the fields the update carries and keeps every
\* other field of the order; orders without an update are kept whole.
C10_MergeKeepsAbsentFields ==
    [][Handled(PollReq) =>
          \A result \in PollResults : (ResultHasUpdates(result) /\ PollSucceeds(result)) =>
              /\ DOMAIN pendingOrdersData' = DOMAIN pendingOrdersData
              /\ \A o \in Tracked, f \in Fields :
                    pendingOrdersData'[o][f] =
                        IF o \in DOMAIN result.updated_orders /\ result.updated_orders[o][f] # Missing
                        THEN result.updated_orders[o][f]
                        ELSE pendingOrdersData[o][f]
              /\ \A o \in Tracked :
                    (o \in DOMAIN result.updated_orders /\ result.updated_orders[o].ib_order_id = Missing)
                        => pendingOrdersData'[o].ib_order_id = pendingOrdersData[o].ib_order_id]_vars

\* C10 witness: an order that got the fallback broker id at execute was merged
\* to executed by an update without a broker order id, and still has the id.
C10_Witness ==
    \E o \in Tracked :
        pendingOrdersData[o] = [status |-> "executed", ib_order_id |-> "Unknown", ib_status |-> "Filled"]

\* C11: a failed status poll is only logged: the handler shows no alert,
\* writes the error to the console and leaves the tracked orders as they were.
C11_PollFailureOnlyLogged ==
    [][PollFails =>
          /\ alert' = NoAlertShown
          /\ console' = "Error checking order status"
          /\ pendingOrdersData' = pendingOrdersData]_vars

\* C11 witness: a poll has just failed: the error is on the console, no alert
\* is shown, an order is still in progress and the timer still runs.
C11_Witness ==
    /\ console = "Error checking order status"
    /\ alert = NoAlertShown
    /\ AnyInProgress(pendingOrdersData)
    /\ TimerRunning

\* C12: an order that is in the tracked list stays in it: no step (execute,
\* cancel, poll merge, reload) removes an order from pendingOrdersData.
C12_TrackedOrderNeverRemoved ==
    [][DOMAIN pendingOrdersData \subseteq DOMAIN pendingOrdersData']_vars

\* the requests a set of request keys has outstanding
InFlight(S) == SumOver(inflight, S)
\* requests that an action of the user stands behind: all but the status poll
UserRequests == Requests \ {PollReq}
\* a step the user takes: the page load, a click on Execute, Cancel, Refresh
\* or Sell All (the handler's last segment stands for the click)
UserInvoked ==
    \/ DOMContentLoaded
    \/ \E o \in OrderIds : ClickExecute(o) \/ ClickCancel(o)
    \/ LoadPendingOrders
    \/ \E successOrders \in 0..MaxCreated : SellAllDone(successOrders)
\* the handler of a failed execute, cancel or load has run: its alert is shown
FailureHandled ==
    alert' \in {"Error executing order", "Error cancelling order", "Error fetching orders"}
CreatedOrders == IF calc.op \in {"orderOptionsForTicker", "sellOption", "sellAllOptions"} THEN calc.orders ELSE <<>>

\* C14: every CALL order the options table creates has a quantity of at most
\* floor(sharesOwned / 100): none is created for fewer than 100 shares.
C14_CallQuantityCoveredByShares ==
    \A i \in DOMAIN CreatedOrders :
        CreatedOrders[i].option_type = "CALL" => CreatedOrders[i].quantity <= calc.sharesOwned \div 100

\* C15: the execute action is offered for an order only while its status is
\* pending (an order without a status counts as pending): a row of the pending
\* orders table has an execute button only then.
C15_ExecuteOnlyWhilePending ==
    calc.op = "populatePendingOrdersTable" =>
        ("execute-order-btn" \in calc.actionButtons => calc.status \in {"pending", NoVal})

\* q is max(1, min(floor((2 * cashBalance / tickerCount) / (putStrike * 100)), 10)),
\* for a strike and a ticker count that are not zero: the floor k is the whole
\* number with k * d <= 2 * cashBalance < (k + 1) * d, d = tickerCount * putStrike * 100
IsClampedAllocation(q, cashBalance, tickerCount, putStrike) ==
    LET d == tickerCount * putStrike * 100
    IN  /\ q \in 1..10
        /\ q > 1 => q * d <= 2 * cashBalance
        /\ q < 10 => 2 * cashBalance < (q + 1) * d

\* C16 as stated: for any non-negative inputs the quantity is a whole number
\* from 1 to 10, equal to max(1, min(floor((2 * cashBalance / tickerCount) /
\* (putStrike * 100)), 10)) wherever that expression has a value.
C16_QuantityIsClampedAllocation ==
    calc.op = "calculateRecommendedPutQuantity" =>
        /\ calc.quantity \in 1..10
        /\ (calc.hasPortfolioSummary /\ calc.putStrike > 0 /\ calc.tickerCount > 0) =>
              IsClampedAllocation(calc.quantity, calc.cashBalance, calc.tickerCount, calc.putStrike)

\* C16 amended: the quantity is a whole number from 1 to 10; it is 1 when
\* there is no portfolio summary or the stock price or the strike is zero, and
\* otherwise the clamped allocation, a ticker count of zero counting as one.
C16_QuantityInRangeDefaultOne ==
    calc.op = "calculateRecommendedPutQuantity" =>
        /\ calc.quantity \in 1..10
        /\ IF ~calc.hasPortfolioSummary \/ calc.stockPrice = 0 \/ calc.putStrike = 0
           THEN calc.quantity = 1
           ELSE IsClampedAllocation(calc.quantity, calc.cashBalance,
                                    IF calc.tickerCount = 0 THEN 1 ELSE calc.tickerCount,
                                    calc.putStrike)

\* C16 witness: without a stock price the quantity is 1 although the cash
\* would allow ten contracts at the strike.
C16_Witness ==
    /\ calc.op = "calculateRecommendedPutQuantity"
    /\ calc.hasPortfolioSummary /\ calc.stockPrice = 0 /\ calc.putStrike = 1
    /\ calc.tickerCount = 1 /\ calc.cashBalance = 1000
    /\ calc.quantity = 1

\* C17: for a call strike and a put strike at the same distance above and
\* below the stock price, the call's OTM percentage equals the put's.
C17_OtmAntisymmetric ==
    (/\ calc.op \in {"updateOptionsTable", "updateOptionsTables"}
     /\ calc.stockPrice > 0 /\ calc.putStrike > 0
     /\ calc.callStrike - calc.stockPrice = calc.stockPrice - calc.putStrike)
        => RatioEq(calc.callOTMPercent, calc.putOTMPercent)

\* the first non-zero stock price of the call response and then the put
\* response, 0 when neither has one
FirstNonZero(hasCallData, callPrice, hasPutData, putPrice) ==
    IF hasCallData /\ callPrice # 0 THEN callPrice
    ELSE IF hasPutData /\ putPrice # 0 THEN putPrice
    ELSE 0

\* C18: a ticker refresh that fetches the call data and the put data stores
\* the first non-zero stock price of the two responses, the call response
\* first: not an average, and not a price that a later response replaced.
C18_FirstNonZeroPriceWins ==
    calc.op \in {"refreshOptionsForTicker", "refreshOptionsForTickerMergedData"} =>
        LET first == FirstNonZero(calc.hasCallData, calc.callPrice,
                                  calc.hasPutData, calc.putPrice)
        IN  first # 0 => calc.stock_price = first

\* the distance in days of an expiration from seven days after the selected
\* option's expiration
DaysFromOneWeekLater(date, expiration) ==
    AbsDiff(DayNumber(date), DayNumber(expiration) + 7)

\* the number of positions of a sequence that hold the value
Occurrences(seq, value) == Cardinality({i \in DOMAIN seq : seq[i] = value})

\* C19: the rollover suggestions are available options that expire strictly
\* after the selected option, in the order of non-decreasing distance from
\* seven days after its expiration, and they are the three closest of those
\* (all of them when there are fewer); from 2024-06-21 with 2024-06-28,
\* 2024-07-05 and 2024-06-20 available they are 2024-06-28, 2024-07-05.
C19_RolloverSuggestions ==
    calc.op = "selectOptionToRoll" =>
        LET suggestions == calc.rolloverSuggestions
            available == calc.availableOptions
            later == {i \in DOMAIN available :
                         DayNumber(available[i]) > DayNumber(calc.expiration)}
            distance(date) == DaysFromOneWeekLater(date, calc.expiration)
        IN  /\ \A i \in DOMAIN suggestions :
                  /\ DayNumber(suggestions[i]) > DayNumber(calc.expiration)
                  /\ Occurrences(suggestions, suggestions[i])
                        <= Occurrences(available, suggestions[i])
            /\ \A i, j \in DOMAIN suggestions :
                  i < j => distance(suggestions[i]) <= distance(suggestions[j])
            /\ Len(suggestions) = Min(3, Cardinality(later))
            /\ \A i \in later :
                  \/ Occurrences(suggestions, available[i]) = Occurrences(available, available[i])
                  \/ \A j \in DOMAIN suggestions :
                        distance(suggestions[j]) <= distance(available[i])
            /\ (/\ calc.expiration = CalendarDate(6, 21)
                /\ available = <<CalendarDate(6, 28), CalendarDate(7, 5), CalendarDate(6, 20)>>)
                  => suggestions = <<CalendarDate(6, 28), CalendarDate(7, 5)>>

\* C19 witness: four later expirations and an earlier one are reduced to the
\* three closest to one week after 2024-06-21.
C19_Witness ==
    /\ calc.op = "selectOptionToRoll"
    /\ calc.expiration = CalendarDate(6, 21)
    /\ calc.availableOptions = <<CalendarDate(7, 12), CalendarDate(7, 5),
                                 CalendarDate(6, 29), CalendarDate(6, 28)>>
    /\ calc.rolloverSuggestions = <<CalendarDate(6, 28), CalendarDate(6, 29),
                                    CalendarDate(7, 5)>>

\* the fields of a summary that are amounts, and those that are percentages
AmountFields ==
    {"totalWeeklyCallPremium", "totalWeeklyPutPremium", "totalWeeklyPremium",
     "portfolioValue", "projectedAnnualEarnings", "totalPutExerciseCost", "cashBalance"}
PercentFields == {"projectedAnnualReturn", "weeklyReturn"}
EarningsOps == {"calculateEarningsSummary", "calculateAccountEarningsSummary"}

\* the field of the summary of both sets is the sum of the fields of the two
Additive(field) ==
    IF field \in PercentFields
    THEN RatioEq(calc.ofBoth[field], RatioAdd(calc.ofA[field], calc.ofB[field]))
    ELSE calc.ofBoth[field] = calc.ofA[field] + calc.ofB[field]

C21_PutSideCountsAnyTicker ==
    (/\ calc.op \in EarningsOps \cup {"calculateApiEarningsSummary"}
     /\ Len(calc.tickersA) = 1)
        => LET tickerData == calc.tickersA[1]
           IN  /\ tickerData.position < 100 => calc.ofA.totalWeeklyCallPremium = 0
               /\ (tickerData.putAsk # 0 /\ tickerData.putQuantity > 0) =>
                     /\ calc.ofA.totalWeeklyPutPremium
                           = tickerData.putAsk * 100 * tickerData.putQuantity
                     /\ calc.op \in EarningsOps =>
                           calc.ofA.totalPutExerciseCost
                               = tickerData.putStrike * 100 * tickerData.putQuantity

\* a percentage that has no value
Null == << >>

\* the account value of a portfolio summary, 0 when there is no summary
AccountValue(portfolioSummary) ==
    IF portfolioSummary.present THEN portfolioSummary.account_value ELSE 0

\* C22: the portfolio impact of a put position is its exercise cost (strike
\* * 100 * quantity) as a percentage of the account value, and it has no
\* value, rather than the value zero, when the account value is zero.
C22_ImpactNullWithoutAccountValue ==
    (/\ calc.op = "updateOptionsTablePutSide"
     /\ calc.hasPutOption /\ calc.putQuantity > 0 /\ calc.putStrike > 0)
        => IF AccountValue(calc.portfolioSummary) = 0
           THEN calc.portfolioImpact = Null
           ELSE RatioEq(calc.portfolioImpact,
                        Ratio(calc.putStrike * 100 * calc.putQuantity * 100,
                              AccountValue(calc.portfolioSummary)))

\* a stored number is a whole number from low to high
WholeNumberIn(number, low, high) == ~number.nan /\ number.value \in low..high

\* C23: after the user submitted a value for a ticker's OTM percentage, the
\* stored percentages of the call and of the put side are whole numbers from
\* 1 to 50: a value outside that range, or one that is no number, is not
\* stored.
C23_OtmPercentageInRange ==
    calc.op \in {"otmInputChange", "refreshOtmClick"} =>
        /\ WholeNumberIn(calc.tickerData.callOtmPercentage, 1, 50)
        /\ WholeNumberIn(calc.tickerData.putOtmPercentage, 1, 50)

\* C24: the put quantity stored for a ticker is never negative, whatever the
\* user typed, incremented or decremented and whatever was refreshed or
\* rendered.
C24_PutQuantityNeverNegative ==
    \A ticker \in DOMAIN tickersData : tickersData[ticker].putQuantity >= 0

\* C25: a ticker whose working set exists only because it is a custom ticker
\* (XYZ is never among the account's tickers) has no record in tickersData
\* once the user has removed it: it has a record only while it is in the
\* custom ticker list.
C25_RemovedTickerHasNoEntry ==
    "XYZ" \in DOMAIN tickersData => "XYZ" \in Range(customTickers)

\* the flags and settings of a ticker that a refresh is to leave alone
Settings(record) ==
    <<record.otmPercentage, record.putQuantity, record.isCustom, record.isPortfolioTicker,
      record.callsDisabled>>

\* C29: when the data of a refresh arrives for a ticker, the ticker's OTM
\* percentage, put quantity and isCustom, isPortfolioTicker and callsDisabled
\* flags are what they were before.
C29_RefreshKeepsSettings ==
    [][\A i \in DOMAIN refreshes, response \in ResponseData :
          (RefreshResponds(i, response) /\ refreshes[i].ticker \in DOMAIN tickersData)
              => /\ refreshes[i].ticker \in DOMAIN tickersData'
                 /\ Settings(tickersData'[refreshes[i].ticker])
                       = Settings(tickersData[refreshes[i].ticker])]_vars

\* C26: for every order at most one execute request is awaiting the
\* backend's response at any time.
C26_OneExecuteOutstanding ==
    \A o \in OrderIds : inflight[ExecuteReq(o)] <= 1

\* the statuses an order had before it could reach the status st
EarlierStatuses(st) ==
    CASE st = "processing" -> {"pending"}
      [] st = "canceling" -> {"pending", "processing"}
      [] st = "canceled" -> {"pending", "processing", "canceling"}
      [] OTHER -> {}

\* the statuses the success handler that showed the alert has just written
OptimisticStatuses(message) ==
    CASE message = "Order sent to TWS" -> {"processing"}
      [] message = "Order cancellation requested" -> {"canceling", "canceled"}
      [] OTHER -> {}

\* C27: when the response of a reload of the order list is handled right
\* after an execute or a cancel succeeded (its success alert is showing and
\* the reload was already awaited), an order in the status which that
\* success wrote (processing, or canceling or canceled) is not set back to an
\* earlier status.
C27_ReloadKeepsOptimisticStatus ==
    [][Handled(LoadReq) =>
          \A o \in Kept :
              StatusOf(pendingOrdersData, o) \in OptimisticStatuses(alert)
                  => StatusOf(pendingOrdersData', o)
                         \notin EarlierStatuses(StatusOf(pendingOrdersData, o))]_vars

\* C28: at most one polling interval exists at any time, and it exists
\* exactly while autoRefreshTimer holds its handle: a start while the timer
\* runs creates no second one, and after a stop or the page unload none is
\* left.
C28_AtMostOneInterval ==
    /\ intervals <= 1
    /\ autoRefreshTimer <=> intervals = 1

\* both orders were executed, each with the fallback broker order id that
\* only the execute handler writes, the second success has just called
\* startAutoRefresh, and there is the one interval the first success created
C28_Witness ==
    /\ alert = "Order sent to TWS"
    /\ Tracked = OrderIds
    /\ \A o \in Tracked :
          /\ StatusOf(pendingOrdersData, o) = "processing"
          /\ pendingOrdersData[o].ib_order_id = "Unknown"
    /\ autoRefreshTimer
    /\ intervals = 1

\* C30: while the order-save request started by a click on an option's Sell
\* button is awaited, a further click for the same option starts no second
\* request: at most one is under way for an option.
C30_OneSavePerOption ==
    \A optionType \in OptionTypes : Cardinality(SavesOf(optionType)) <= 1
====
